---- MODULE Spec2Model ----
(***************************************************************************)
(* Kuber-AI mcp_server: the Kubernetes connector (a Singleton), the read    *)
(* tool and the kubectl/helm command dispatcher, as state machines.         *)
(*                                                                          *)
(* Three specifications share the variables:                                *)
(*   Spec          callers acquire the connector concurrently; each         *)
(*                 step of Singleton.__call__ is one action                 *)
(*   SeqSpec       the same steps, one acquisition in flight at a time      *)
(*   DispatchSpec  one caller at a time invokes the dispatcher, Helm and     *)
(*                 read-tool operations; the subprocess and the cluster API *)
(*                 answer nondeterministically                              *)
(***************************************************************************)
EXTENDS Integers, Sequences, FiniteSets, TLC

\* ---------------------------------------------------------------- bounds

\* Number of caller threads that may acquire the connector.
NThreads == 2

Threads == 1..NThreads

\* ------------------------------------------------------- Python values

\* Python's None, for the string-valued parameters.
None == "<None>"

\* Python truthiness of an Optional[str]: None and "" are falsy.
Truthy(v) == v \notin {None, ""}

\* ------------------------------------------------ connection provider

VARIABLES
    instances,    \* Singleton._instances[KubernetesAPIConnector]: a handle id, 0 = no entry
    constructed,  \* number of connector objects whose __init__ has completed
    configLoads,  \* configuration sources loaded into the kubernetes client so far
    closed,       \* handles whose api_client has been closed by cleanup()
    inCluster,    \* environment: TRUE when in-cluster credentials are mounted
    first,        \* first handle ever registered in _instances (0 = none yet)
    hpc,          \* per thread: position in the acquisition
    hkind,        \* per thread: "ambient" (KubernetesAPIConnector()) or "explicit" (from_config)
    hpath,        \* per thread: kubeconfig_path given to from_config
    hloaded,      \* per thread: the config_loaded argument of __init__
    hobj,         \* per thread: object built by super().__call__, 0 = none
    hret,         \* per thread: handle returned, 0 = none
    hraised,      \* per thread: exception that left the call, "" = none
    hpre,         \* per thread: _instances entry when the call began
    cleanupResult \* status of the last cleanup() call, "" = none yet

hvars == <<instances, constructed, configLoads, closed, inCluster, first, hpc, hkind,
           hpath, hloaded, hobj, hret, hraised, hpre, cleanupResult>>

\* Dispatcher, Helm operations and read tool: one caller at a time.
VARIABLES
    op,         \* operation the caller is in, "" = none
    args,       \* its parameters
    phase,      \* "idle", "running" (a subprocess was spawned and has not exited),
                \* "api" (a cluster API call is outstanding) or "returned"
    cmd,        \* argument vector handed to the subprocess
    spawned,    \* subprocesses spawned by the current call
    live,       \* subprocesses spawned by the current call that have not exited
    tmp,        \* temporary file of the current call: "none", "exists" or "deleted"
    outcome,    \* what the subprocess or the API call did
    apiCalls,   \* cluster API calls issued by the current call
    result      \* value returned to the caller

dvars == <<op, args, phase, cmd, spawned, live, tmp, outcome, apiCalls, result>>

\* kubectl_logs with follow=True: the caller, the kill timer's thread and the
\* kubectl child.
VARIABLES
    fpc,        \* caller's position: "idle", "reading" (the for loop), "cancel" and
                \* "terminate" (the finally block), "drain" (stderr.read()), "returned"
    fargs,      \* parameters of the call
    child,      \* the kubectl child: "none", "running", "closed" (its pipes are at end
                \* of file, it cannot be waited for yet), "zombie" (exited, not waited
                \* for) or "reaped"
    sig,        \* strongest signal sent to the child: "", "SIGTERM" or "SIGKILL"
    death,      \* why the child ended: "", "exit", "SIGTERM" or "SIGKILL"
    sent,       \* lines the child has written to stdout, in order
    output,     \* the list `output` of the caller
    ferr,       \* what the child wrote to stderr
    timer,      \* kill_timer: "none", "created", "pending", "fired" or "cancelled"
    returncode, \* process.returncode: <<>> for None, <<rc>> once a poll has reaped it
    pending,    \* exception on its way through the finally block, "" = none
    fresult     \* value returned to the caller

fvars == <<fpc, fargs, child, sig, death, sent, output, ferr, timer, returncode, pending,
           fresult>>

\* port_forward and stop_port_forward: one caller at a time.
VARIABLES
    hasMap,     \* hasattr(self, "_port_forward_processes")
    sessions,   \* self._port_forward_processes, in insertion order: <<key, pid>> pairs
    procs,      \* every kubectl port-forward child ever spawned, by pid
    ppc,        \* caller's position: "idle", "sleeping" (time.sleep(1)) or "returned"
    pop,        \* operation the caller is in, "" = none
    pargs,      \* its parameters
    presult     \* value returned to the caller

pvars == <<hasMap, sessions, procs, ppc, pop, pargs, presult>>

\* The tool-call boundary.
VARIABLES
    escaped,    \* exception that left the current tool call, "" = none
    request     \* request the current call sent to the cluster API

\* port_forward and stop_port_forward called from several threads at once;
\* they share hasMap, sessions and procs with the single caller above.
VARIABLES
    tpc,        \* per thread: "idle", "check" (line 1117), "create" (1118), "store"
                \* (1120-1121), "sleep" (1124), "lookup" (1168), "terminate"
                \* (1169-1170), "del" (1171) or "done"
    top,        \* per thread: operation the thread is in, "" = none
    tkey,       \* per thread: the session key of its call
    tproc,      \* per thread: pid of the child it spawned or looked up, 0 = none
    tres        \* per thread: outcome of its call: "", "success", "error", "warning",
                \* or "exception" for the except clause's record

rvars == <<tpc, top, tkey, tproc, tres>>

xvars == <<fvars, pvars, escaped, request, rvars>>

\* Credential paths a caller may pass: unset, "", two good files, a file that
\* does not exist, and a file that exists but is no valid kubeconfig.
Paths == {None, "", "a.yaml", "b.yaml", "missing.yaml", "bad.yaml"}

\* os.path.exists
PathExists(p) == p \in {"a.yaml", "b.yaml", "bad.yaml"}

\* config.load_kube_config raises on a file that is no kubeconfig
KubeConfigLoads(p) == p \in {"a.yaml", "b.yaml"}

HandleInit ==
    /\ instances = 0
    /\ constructed = 0
    /\ configLoads = {}
    /\ closed = {}
    /\ inCluster \in BOOLEAN
    /\ first = 0
    /\ hpc = [t \in Threads |-> "idle"]
    /\ hkind = [t \in Threads |-> ""]
    /\ hpath = [t \in Threads |-> None]
    /\ hloaded = [t \in Threads |-> FALSE]
    /\ hobj = [t \in Threads |-> 0]
    /\ hret = [t \in Threads |-> 0]
    /\ hraised = [t \in Threads |-> ""]
    /\ hpre = [t \in Threads |-> 0]
    /\ cleanupResult = ""

\* A call leaves by exception: nothing is returned.
Raise(t, exc) ==
    /\ hpc' = [hpc EXCEPT ![t] = "done"]
    /\ hraised' = [hraised EXCEPT ![t] = exc]

\* KubernetesAPIConnector(): the ambient-mode acquisition enters Singleton.__call__.
AcquireAmbient(t) ==
    /\ hpc[t] = "idle"
    /\ hpc' = [hpc EXCEPT ![t] = "call"]
    /\ hkind' = [hkind EXCEPT ![t] = "ambient"]
    /\ hloaded' = [hloaded EXCEPT ![t] = FALSE]
    /\ hpre' = [hpre EXCEPT ![t] = instances]
    /\ UNCHANGED <<instances, constructed, configLoads, closed, inCluster, first,
                   hpath, hobj, hret, hraised, cleanupResult, dvars, xvars>>

\* from_config, line 41: the path must be set and name an existing file.
FromConfigPathOk(p) == Truthy(p) /\ PathExists(p)

\* from_config as it would be if a bad path fell back to in-cluster credentials.
FromConfig_Fallback(t, p) ==
    /\ hpc[t] = "idle"
    /\ hkind' = [hkind EXCEPT ![t] = "explicit"]
    /\ hpath' = [hpath EXCEPT ![t] = p]
    /\ hpre' = [hpre EXCEPT ![t] = instances]
    /\ hpc' = [hpc EXCEPT ![t] = "call"]
    /\ hloaded' = [hloaded EXCEPT ![t] = FromConfigPathOk(p) /\ KubeConfigLoads(p)]
    /\ configLoads' = IF FromConfigPathOk(p) /\ KubeConfigLoads(p)
                      THEN configLoads \cup {p} ELSE configLoads
    /\ UNCHANGED <<instances, constructed, closed, inCluster, first, hobj, hret, hraised,
                   cleanupResult, dvars, xvars>>

\* KubernetesAPIConnector.from_config(kubeconfig_path), up to the call of cls(...).
FromConfig(t, p) ==
    /\ hpc[t] = "idle"
    /\ hkind' = [hkind EXCEPT ![t] = "explicit"]
    /\ hpath' = [hpath EXCEPT ![t] = p]
    /\ hpre' = [hpre EXCEPT ![t] = instances]
    /\ IF FromConfigPathOk(p)
       THEN IF KubeConfigLoads(p)
            THEN /\ configLoads' = configLoads \cup {p}
                 /\ hpc' = [hpc EXCEPT ![t] = "call"]
                 /\ hloaded' = [hloaded EXCEPT ![t] = TRUE]
                 /\ UNCHANGED hraised
            ELSE /\ Raise(t, "ConfigException")
                 /\ UNCHANGED <<configLoads, hloaded>>
       ELSE /\ Raise(t, "RuntimeError")
            /\ UNCHANGED <<configLoads, hloaded>>
    /\ UNCHANGED <<instances, constructed, closed, inCluster, first, hobj, hret,
                   cleanupResult, dvars, xvars>>

\* os.environ.get("ENV", "DEVELOPMENT").strip('"').upper() for the values the
\* variable is given in the model; <None> is the unset variable.
EnvValues == {None, "DEVELOPMENT", "\"development\"", "production", "PRODUCTION"}

\* register_kubernetes_tools, line 17
env_of(e) ==
    IF e \in {None, "DEVELOPMENT", "\"development\""} THEN "DEVELOPMENT" ELSE "PRODUCTION"

\* register_kubernetes_tools, lines 17-24: the startup acquisition; f is the
\* value of KUBERNETES_CONFIG_FILE (<None> when unset).
register_kubernetes_tools(t, e, f) ==
    IF env_of(e) = "DEVELOPMENT" THEN FromConfig(t, f) ELSE AcquireAmbient(t)

\* The membership test as it would be if every call constructed.
NotInInstances_Always == TRUE

\* Singleton.__call__, line 46: `cls not in cls._instances`.
NotInInstances == instances = 0

\* Singleton.__call__, line 46: the membership test decides whether to construct.
SingletonCheck(t) ==
    /\ hpc[t] = "call"
    /\ hpc' = [hpc EXCEPT ![t] = IF NotInInstances THEN "init" ELSE "return"]
    /\ UNCHANGED <<instances, constructed, configLoads, closed, inCluster, first, hkind,
                   hpath, hloaded, hobj, hret, hraised, hpre, cleanupResult, dvars, xvars>>

\* KubernetesAPIConnector.__init__, run by super().__call__ on line 47.
ConnectorInit(t) ==
    /\ hpc[t] = "init"
    /\ IF ~hloaded[t] /\ ~inCluster
       THEN /\ Raise(t, "ConfigException")
            /\ UNCHANGED <<constructed, configLoads, hobj>>
       ELSE /\ configLoads' = IF hloaded[t] THEN configLoads ELSE configLoads \cup {"incluster"}
            /\ constructed' = constructed + 1
            /\ hobj' = [hobj EXCEPT ![t] = constructed + 1]
            /\ hpc' = [hpc EXCEPT ![t] = "store"]
            /\ UNCHANGED hraised
    /\ UNCHANGED <<instances, closed, inCluster, first, hkind, hpath, hloaded, hret,
                   hpre, cleanupResult, dvars, xvars>>

\* Singleton.__call__, line 47: `cls._instances[cls] = <the new object>`.
SingletonStore(t) ==
    /\ hpc[t] = "store"
    /\ instances' = hobj[t]
    /\ first' = IF first = 0 THEN hobj[t] ELSE first
    /\ hpc' = [hpc EXCEPT ![t] = "return"]
    /\ UNCHANGED <<constructed, configLoads, closed, inCluster, hkind, hpath, hloaded,
                   hobj, hret, hraised, hpre, cleanupResult, dvars, xvars>>

\* Singleton.__call__, line 48: `return cls._instances[cls]`.
SingletonReturn(t) ==
    /\ hpc[t] = "return"
    /\ hret' = [hret EXCEPT ![t] = instances]
    /\ hpc' = [hpc EXCEPT ![t] = "done"]
    /\ UNCHANGED <<instances, constructed, configLoads, closed, inCluster, first, hkind,
                   hpath, hloaded, hobj, hraised, hpre, cleanupResult, dvars, xvars>>

\* The caller has its answer and may call again.
Finish(t) ==
    /\ hpc[t] = "done"
    /\ hpc' = [hpc EXCEPT ![t] = "idle"]
    /\ hkind' = [hkind EXCEPT ![t] = ""]
    /\ hpath' = [hpath EXCEPT ![t] = None]
    /\ hloaded' = [hloaded EXCEPT ![t] = FALSE]
    /\ hobj' = [hobj EXCEPT ![t] = 0]
    /\ hret' = [hret EXCEPT ![t] = 0]
    /\ hraised' = [hraised EXCEPT ![t] = ""]
    /\ hpre' = [hpre EXCEPT ![t] = 0]
    /\ UNCHANGED <<instances, constructed, configLoads, closed, inCluster, first,
                   cleanupResult, dvars, xvars>>

\* cleanup() as it would be if it also dropped the singleton's entry.
InstancesAfterCleanup_Dropped(h) == IF instances = h THEN 0 ELSE instances

\* What cleanup() does to Singleton._instances: nothing.
InstancesAfterCleanup(h) == instances

\* KubernetesAPIConnector.cleanup() on handle h; api_client.close() may raise.
cleanup(h, closeRaises) ==
    /\ h \in 1..constructed
    /\ IF closeRaises
       THEN /\ cleanupResult' = "error"
            /\ UNCHANGED closed
       ELSE /\ cleanupResult' = "success"
            /\ closed' = closed \cup {h}
    /\ instances' = InstancesAfterCleanup(h)
    /\ UNCHANGED <<constructed, configLoads, inCluster, first, hpc, hkind, hpath,
                   hloaded, hobj, hret, hraised, hpre, dvars, xvars>>

\* ------------------------------------------------------ Python text

\* A Python str that ends up in a result is a sequence of fragments whose
\* concatenation is the str. The output of a subprocess is given one character
\* per fragment, so that strip() and split() see every character.
Lit(s) == <<s>>

IsSpace(c) == c \in {" ", "\n", "\t"}

RECURSIVE LStrip(_)
\* str.lstrip(): drop leading whitespace
LStrip(s) == IF s # <<>> /\ IsSpace(Head(s)) THEN LStrip(Tail(s)) ELSE s

RECURSIVE RStrip(_)
\* str.rstrip(): drop trailing whitespace
RStrip(s) ==
    IF s # <<>> /\ IsSpace(s[Len(s)]) THEN RStrip(SubSeq(s, 1, Len(s) - 1)) ELSE s

\* str.strip()
Strip(s) == RStrip(LStrip(s))

RECURSIVE SplitOn(_, _, _)
\* str.split(sep) for a one-character sep: the pieces between the separators,
\* empty pieces kept; `piece` is the piece being read.
SplitOn(s, sep, piece) ==
    IF s = <<>> THEN <<piece>>
    ELSE IF Head(s) = sep THEN <<piece>> \o SplitOn(Tail(s), sep, <<>>)
    ELSE SplitOn(Tail(s), sep, Append(piece, Head(s)))

RECURSIVE Concat(_)
\* the str a sequence of characters spells
Concat(s) == IF s = <<>> THEN "" ELSE Head(s) \o Concat(Tail(s))

RECURSIVE SplitSpace(_, _)
\* str.split() without separator: the maximal runs of non-whitespace, as strs
SplitSpace(s, piece) ==
    IF s = <<>> THEN (IF piece = <<>> THEN <<>> ELSE <<Concat(piece)>>)
    ELSE IF IsSpace(Head(s))
         THEN (IF piece = <<>> THEN <<>> ELSE <<Concat(piece)>>) \o SplitSpace(Tail(s), <<>>)
         ELSE SplitSpace(Tail(s), Append(piece, Head(s)))

RECURSIVE Join(_)
\* " ".join(list of str)
Join(l) ==
    IF l = <<>> THEN ""
    ELSE IF Len(l) = 1 THEN l[1]
    ELSE l[1] \o " " \o Join(Tail(l))

Digit == <<"0", "1", "2", "3", "4", "5", "6", "7", "8", "9">>

RECURSIVE Str(_)
\* str(i) for an int i >= 0
Str(i) == IF i < 10 THEN Digit[i + 1] ELSE Str(i \div 10) \o Digit[(i % 10) + 1]

\* cmd.extend(items) under a condition
Opt(cond, items) == IF cond THEN items ELSE <<>>

\* json.loads on the texts the model feeds it (characters "{", "}", "1",
\* whitespace and letters): surrounding whitespace is ignored; an object
\* without members and a number written with the digit 1 are the documents.
JsonIsObject(t) ==
    /\ Len(t) >= 2
    /\ t[1] = "{"
    /\ t[Len(t)] = "}"
    /\ \A i \in 2..(Len(t) - 1) : IsSpace(t[i])

JsonIsNumber(t) == t # <<>> /\ \A i \in 1..Len(t) : t[i] = "1"

\* json.loads raises JSONDecodeError on anything else
JsonValid(s) == JsonIsObject(Strip(s)) \/ JsonIsNumber(Strip(s))

RECURSIVE Ones(_)
Ones(n) == IF n = 0 THEN 0 ELSE 10 * Ones(n - 1) + 1

\* json.loads: the parsed value
JsonLoads(s) ==
    IF JsonIsObject(Strip(s)) THEN [type |-> "dict", value |-> 0]
    ELSE [type |-> "int", value |-> Ones(Len(Strip(s)))]

\* ------------------------------------------------ command dispatcher

\* What an operation decides before it runs a subprocess: `reject` holds the
\* record returned at once (empty when the parameters are accepted), `cmd`
\* the argument vector, `tmp` whether the command reads a temporary file.
Pre(reject, argv, usesTmp) == [reject |-> reject, cmd |-> argv, tmp |-> usesTmp]

\* tempfile.NamedTemporaryFile(...).name
TmpName == "/tmp/tmp.yaml"

\* str(e) of the exception subprocess.run raises when it cannot spawn
SpawnError == "[Errno 2] No such file or directory"

\* texts a subprocess may write to stdout
Stdouts ==
    { <<>>,
      <<"o">>,
      <<"o", "\n">>,
      <<" ", "o", "\n">>,
      <<"{", "}">>,
      <<"{", " ", "}", "\n">>,
      <<"1", "1", "\n">>,
      <<"{">>,
      <<"N", " ", "S", " ", "A", " ", "B", " ", "K", "\n",
        "p", " ", "n", "o", "n", "e", " ", "v", " ", "t", "r", "u", "e", " ", "P", "\n",
        "d", " ", "a", " ", "D", "\n">>,
      <<"N", " ", "S", " ", "A", " ", "B", " ", "K", "\n",
        "c", " ", "c", "m", " ", "v", " ", "f", "a", "l", "s", "e", " ", "C", " ", "x", "\n",
        "b", " ", " ", "v", " ", "t", "r", "u", "e", " ", "B", "\n",
        "p", " ", "p", "o", " ", "v", " ", "t", "r", "u", "e", " ", "P", "\n">> }

\* texts a subprocess may write to stderr
Stderrs == { <<>>, <<"E">> }

\* what subprocess.run can do: raise, or return a CompletedProcess
NoOutcome == [kind |-> "none"]
Raised == [kind |-> "raise", text |-> SpawnError]
Exited(rc, out, err) == [kind |-> "exit", returncode |-> rc, stdout |-> out, stderr |-> err]

\* kubectl_apply as it would be without its final else: it runs kubectl anyway.
kubectl_apply_pre_NoElse(a) ==
    LET c == <<"kubectl", "apply">>
             \o Opt(Truthy(a.namespace), <<"-n", a.namespace>>)
             \o Opt(a.force, <<"--force">>)
    IN IF Truthy(a.manifest) THEN Pre(<<>>, c \o <<"-f", TmpName>>, TRUE)
       ELSE Pre(<<>>, c \o <<"-f", a.filename>>, FALSE)

\* kubectl_apply, lines 451-469
kubectl_apply_pre(a) ==
    LET c == <<"kubectl", "apply">>
             \o Opt(Truthy(a.namespace), <<"-n", a.namespace>>)
             \o Opt(a.force, <<"--force">>)
    IN IF Truthy(a.manifest) THEN Pre(<<>>, c \o <<"-f", TmpName>>, TRUE)
       ELSE IF Truthy(a.filename) THEN Pre(<<>>, c \o <<"-f", a.filename>>, FALSE)
       ELSE Pre(<<[error |-> Lit("Either manifest or filename must be provided")]>>, <<>>, FALSE)

\* kubectl_apply, lines 471-476
kubectl_apply_post(a, r) ==
    IF r.kind = "raise" THEN [error |-> Lit("Failed to apply manifest: ") \o Lit(r.text)]
    ELSE IF r.returncode # 0 THEN [status |-> "error", message |-> r.stderr]
    ELSE [status |-> "success", message |-> r.stdout]

kubectl_apply_args ==
    [manifest : {None, "", "m"}, filename : {None, "", "f.yaml"},
     namespace : {None, "ns"}, force : BOOLEAN]

\* kubectl_context, lines 491-498
kubectl_context_pre(a) ==
    IF a.action = "list" THEN Pre(<<>>, <<"kubectl", "config", "get-contexts">>, FALSE)
    ELSE IF a.action = "get" THEN Pre(<<>>, <<"kubectl", "config", "current-context">>, FALSE)
    ELSE IF a.action = "set" /\ Truthy(a.context_name)
         THEN Pre(<<>>, <<"kubectl", "config", "use-context", a.context_name>>, FALSE)
    ELSE Pre(<<[error |-> Lit("Invalid action or missing context name")]>>, <<>>, FALSE)

\* kubectl_context, lines 500-507
kubectl_context_post(a, r) ==
    IF r.kind = "raise" THEN [error |-> Lit("Failed to manage context: ") \o Lit(r.text)]
    ELSE IF r.returncode # 0
         THEN [status |-> "error", action |-> a.action, message |-> r.stderr]
    ELSE [status |-> "success", action |-> a.action, result |-> Strip(r.stdout)]

kubectl_context_args ==
    [action : {"list", "get", "set", "delete"}, context_name : {None, "", "ctx"}]

\* kubectl_create, lines 536-556
kubectl_create_pre(a) ==
    LET c == <<"kubectl", "create">>
             \o Opt(Truthy(a.namespace), <<"-n", a.namespace>>)
             \o Opt(a.dry_run, <<"--dry-run=client">>)
    IN IF Truthy(a.filename) THEN Pre(<<>>, c \o <<"-f", a.filename>>, FALSE)
       ELSE IF Truthy(a.resource_type) /\ Truthy(a.name)
            THEN Pre(<<>>,
                     c \o <<a.resource_type, a.name>>
                       \o Opt(a.resource_type \in {"deployment", "pod"} /\ Truthy(a.image),
                              <<"--image", a.image>>)
                       \o Opt(a.command # <<>>, <<"--">> \o a.command),
                     FALSE)
       ELSE Pre(<<[error |-> Lit("Either filename or resource_type and name must be provided")]>>,
                <<>>, FALSE)

\* kubectl_create, lines 558-565
kubectl_create_post(a, r) ==
    IF r.kind = "raise" THEN [error |-> Lit("Failed to create resource: ") \o Lit(r.text)]
    ELSE IF r.returncode # 0 THEN [status |-> "error", message |-> r.stderr]
    ELSE [status |-> "success", message |-> r.stdout]

kubectl_create_args ==
    [resource_type : {None, "deployment", "job"}, name : {None, "web"},
     filename : {None, "f.yaml"}, namespace : {None, "ns"}, image : {None, "img"},
     command : {<<>>, <<"sh">>}, dry_run : BOOLEAN]

\* kubectl_delete, lines 594-617; grace_period is <<>> for None, <<n>> for an int
kubectl_delete_pre(a) ==
    LET c == <<"kubectl", "delete">>
             \o Opt(Truthy(a.namespace), <<"-n", a.namespace>>)
             \o Opt(a.force, <<"--force">>)
             \o Opt(a.grace_period # <<>>,
                    <<"--grace-period">> \o [i \in DOMAIN a.grace_period |-> Str(a.grace_period[i])])
    IN IF Truthy(a.filename) THEN Pre(<<>>, c \o <<"-f", a.filename>>, FALSE)
       ELSE IF Truthy(a.resource_type)
            THEN IF Truthy(a.name) THEN Pre(<<>>, c \o <<a.resource_type, a.name>>, FALSE)
                 ELSE IF Truthy(a.label_selector)
                      THEN Pre(<<>>, c \o <<a.resource_type, "-l", a.label_selector>>, FALSE)
                 ELSE Pre(<<[error |->
                             Lit("Either name or label_selector must be provided with resource_type")]>>,
                          <<>>, FALSE)
       ELSE Pre(<<[error |-> Lit("Either filename or resource_type must be provided")]>>,
                <<>>, FALSE)

\* kubectl_delete, lines 619-626
kubectl_delete_post(a, r) ==
    IF r.kind = "raise" THEN [error |-> Lit("Failed to delete resource: ") \o Lit(r.text)]
    ELSE IF r.returncode # 0 THEN [status |-> "error", message |-> r.stderr]
    ELSE [status |-> "success", message |-> r.stdout]

kubectl_delete_args ==
    [resource_type : {None, "pod"}, name : {None, "web"}, filename : {None, "f.yaml"},
     namespace : {None, "ns"}, label_selector : {None, "app=x"}, force : BOOLEAN,
     grace_period : {<<>>, <<0>>}]

\* kubectl_describe, lines 645-653
kubectl_describe_pre(a) ==
    Pre(<<>>,
        <<"kubectl", "describe", a.resource_type>>
          \o (IF Truthy(a.name) THEN <<a.name>>
              ELSE Opt(Truthy(a.label_selector), <<"-l", a.label_selector>>))
          \o Opt(Truthy(a.namespace), <<"-n", a.namespace>>),
        FALSE)

\* kubectl_describe, lines 655-674
kubectl_describe_post(a, r) ==
    IF r.kind = "raise" THEN [error |-> Lit("Failed to describe resource: ") \o Lit(r.text)]
    ELSE IF r.returncode # 0
         THEN [status |-> "error", resource_type |-> a.resource_type, name |-> a.name,
               namespace |-> a.namespace, message |-> r.stderr]
    ELSE [status |-> "success", resource_type |-> a.resource_type, name |-> a.name,
          namespace |-> a.namespace, description |-> r.stdout]

kubectl_describe_args ==
    [resource_type : {"pod"}, name : {None, "web"}, namespace : {None, "ns"},
     label_selector : {None, "app=x"}]

\* kubectl_generic, line 689
kubectl_generic_pre(a) == Pre(<<>>, <<"kubectl">> \o a.args, FALSE)

\* kubectl_generic, lines 691-711
kubectl_generic_post(a, r) ==
    LET c == <<"kubectl">> \o a.args
    IN IF r.kind = "raise" THEN [error |-> Lit("Failed to execute kubectl command: ") \o Lit(r.text)]
       ELSE IF a.capture_output
            THEN IF r.returncode # 0
                 THEN [status |-> "error", command |-> Lit(Join(c)), stdout |-> r.stdout,
                       stderr |-> r.stderr]
                 ELSE [status |-> "success", command |-> Lit(Join(c)), output |-> r.stdout]
       ELSE [status |-> "success", command |-> Lit(Join(c)),
             output |-> Lit("Command executed (output not captured)")]

kubectl_generic_args == [args : {<<>>, <<"get", "pods">>}, capture_output : BOOLEAN]

\* kubectl_get, lines 737-748
kubectl_get_pre(a) ==
    Pre(<<>>,
        <<"kubectl", "get", a.resource_type>>
          \o Opt(Truthy(a.name), <<a.name>>)
          \o Opt(Truthy(a.namespace), <<"-n", a.namespace>>)
          \o Opt(Truthy(a.label_selector), <<"-l", a.label_selector>>)
          \o <<"-o", a.output_format>>,
        FALSE)

\* kubectl_get as it would be if unparsable output were reported like a
\* failed command.
kubectl_get_post_NoParseError(a, r) ==
    IF r.kind = "raise" THEN [error |-> Lit("Failed to get resource: ") \o Lit(r.text)]
    ELSE IF r.returncode # 0 \/ (a.output_format = "json" /\ ~JsonValid(r.stdout))
         THEN [status |-> "error", resource_type |-> a.resource_type, name |-> a.name,
               namespace |-> a.namespace, message |-> r.stderr]
    ELSE IF a.output_format = "json"
         THEN [status |-> "success", resource_type |-> a.resource_type,
               name |-> a.name, namespace |-> a.namespace, data |-> JsonLoads(r.stdout)]
    ELSE [status |-> "success", resource_type |-> a.resource_type, name |-> a.name,
          namespace |-> a.namespace, output |-> r.stdout]

\* kubectl_get, lines 750-782
kubectl_get_post(a, r) ==
    IF r.kind = "raise" THEN [error |-> Lit("Failed to get resource: ") \o Lit(r.text)]
    ELSE IF r.returncode # 0
         THEN [status |-> "error", resource_type |-> a.resource_type, name |-> a.name,
               namespace |-> a.namespace, message |-> r.stderr]
    ELSE IF a.output_format = "json"
         THEN IF JsonValid(r.stdout)
              THEN [status |-> "success", resource_type |-> a.resource_type,
                    name |-> a.name, namespace |-> a.namespace, data |-> JsonLoads(r.stdout)]
              ELSE [status |-> "error", message |-> Lit("Failed to parse JSON output"),
                    output |-> r.stdout]
    ELSE [status |-> "success", resource_type |-> a.resource_type, name |-> a.name,
          namespace |-> a.namespace, output |-> r.stdout]

kubectl_get_args ==
    [resource_type : {"pod"}, name : {None, "web"}, namespace : {None, "ns"},
     label_selector : {None, "app=x"}, output_format : {"json", "yaml"}]

\* kubectl_logs without follow, lines 814-826; tail is <<>> for None, <<n>> for an int
kubectl_logs_pre(a) ==
    Pre(<<>>,
        <<"kubectl", "logs", a.resource_name, "-n", a.namespace>>
          \o Opt(Truthy(a.container), <<"-c", a.container>>)
          \o Opt(a.previous, <<"-p">>)
          \o Opt(Truthy(a.since), <<"--since", a.since>>)
          \o Opt(a.tail # <<>> /\ a.tail # <<0>>,
                 <<"--tail">> \o [i \in DOMAIN a.tail |-> Str(a.tail[i])]),
        FALSE)

\* kubectl_logs without follow, lines 861-879
kubectl_logs_post(a, r) ==
    IF r.kind = "raise" THEN [error |-> Lit("Failed to get logs: ") \o Lit(r.text)]
    ELSE IF r.returncode # 0
         THEN [status |-> "error", resource_name |-> a.resource_name,
               namespace |-> a.namespace, message |-> r.stderr]
    ELSE [status |-> "success", resource_name |-> a.resource_name,
          namespace |-> a.namespace, container |-> a.container, logs |-> r.stdout]

kubectl_logs_args ==
    [resource_name : {"web"}, container : {None, "app"}, namespace : {"default", "ns"},
     previous : BOOLEAN, since : {None, "5m"}, tail : {<<>>, <<0>>, <<15>>},
     follow : {FALSE}]

\* kubectl_patch, lines 904-906: an unknown patch_type falls back to strategic
patch_type_flag(patch_type) ==
    IF patch_type = "strategic" THEN "--type=strategic"
    ELSE IF patch_type = "merge" THEN "--type=merge"
    ELSE IF patch_type = "json" THEN "--type=json"
    ELSE "--type=strategic"

\* kubectl_patch, lines 899-909
kubectl_patch_pre(a) ==
    Pre(<<>>,
        <<"kubectl", "patch", a.resource_type, a.name>>
          \o Opt(Truthy(a.namespace), <<"-n", a.namespace>>)
          \o <<patch_type_flag(a.patch_type), "-p", a.patch>>,
        FALSE)

\* kubectl_patch, lines 911-930
kubectl_patch_post(a, r) ==
    IF r.kind = "raise" THEN [error |-> Lit("Failed to patch resource: ") \o Lit(r.text)]
    ELSE IF r.returncode # 0
         THEN [status |-> "error", resource_type |-> a.resource_type, name |-> a.name,
               namespace |-> a.namespace, message |-> r.stderr]
    ELSE [status |-> "success", resource_type |-> a.resource_type, name |-> a.name,
          namespace |-> a.namespace, result |-> r.stdout]

kubectl_patch_args ==
    [resource_type : {"deployment"}, name : {"web"}, patch : {"{}"}, namespace : {None, "ns"},
     patch_type : {"strategic", "merge", "json", "yaml"}]

\* kubectl_rollout, lines 950-956
kubectl_rollout_pre(a) ==
    Pre(<<>>,
        <<"kubectl", "rollout", a.subcommand, a.resource_type \o "/" \o a.name>>
          \o Opt(Truthy(a.namespace), <<"-n", a.namespace>>)
          \o Opt(Truthy(a.timeout) /\ a.subcommand \in {"status", "restart"},
                 <<"--timeout", a.timeout>>),
        FALSE)

\* kubectl_rollout, lines 958-979
kubectl_rollout_post(a, r) ==
    IF r.kind = "raise" THEN [error |-> Lit("Failed to manage rollout: ") \o Lit(r.text)]
    ELSE IF r.returncode # 0
         THEN [status |-> "error", subcommand |-> a.subcommand,
               resource_type |-> a.resource_type, name |-> a.name,
               namespace |-> a.namespace, message |-> r.stderr]
    ELSE [status |-> "success", subcommand |-> a.subcommand,
          resource_type |-> a.resource_type, name |-> a.name,
          namespace |-> a.namespace, result |-> r.stdout]

kubectl_rollout_args ==
    [subcommand : {"status", "history", "undo", "pause", "resume", "restart", "explode"},
     resource_type : {"deployment"}, name : {"web"}, namespace : {None, "ns"},
     timeout : {None, "30s"}]

\* kubectl_scale, lines 996-999
kubectl_scale_pre(a) ==
    Pre(<<>>,
        <<"kubectl", "scale", a.resource_type \o "/" \o a.name,
          "--replicas=" \o Str(a.replicas)>>
          \o Opt(Truthy(a.namespace), <<"-n", a.namespace>>),
        FALSE)

\* kubectl_scale as it would be if the success record carried stderr.
kubectl_scale_post_Stderr(a, r) ==
    IF r.kind = "raise" THEN [error |-> Lit("Failed to scale resource: ") \o Lit(r.text)]
    ELSE IF r.returncode # 0
         THEN [status |-> "error", resource_type |-> a.resource_type, name |-> a.name,
               replicas |-> a.replicas, namespace |-> a.namespace, message |-> r.stderr]
    ELSE [status |-> "success", resource_type |-> a.resource_type, name |-> a.name,
          replicas |-> a.replicas, namespace |-> a.namespace, result |-> r.stderr]

\* kubectl_scale, lines 1001-1022
kubectl_scale_post(a, r) ==
    IF r.kind = "raise" THEN [error |-> Lit("Failed to scale resource: ") \o Lit(r.text)]
    ELSE IF r.returncode # 0
         THEN [status |-> "error", resource_type |-> a.resource_type, name |-> a.name,
               replicas |-> a.replicas, namespace |-> a.namespace, message |-> r.stderr]
    ELSE [status |-> "success", resource_type |-> a.resource_type, name |-> a.name,
          replicas |-> a.replicas, namespace |-> a.namespace, result |-> r.stdout]

kubectl_scale_args ==
    [resource_type : {"deployment"}, name : {"web"}, replicas : {0, 12},
     namespace : {None, "ns"}]

\* explain_resource, lines 336-338
explain_resource_pre(a) ==
    Pre(<<>>,
        <<"kubectl", "explain", a.resource_type>>
          \o Opt(Truthy(a.field_path), <<"--recursive", a.field_path>>),
        FALSE)

\* explain_resource, lines 340-357
explain_resource_post(a, r) ==
    IF r.kind = "raise" THEN [error |-> Lit("Failed to explain resource: ") \o Lit(r.text)]
    ELSE IF r.returncode # 0
         THEN [status |-> "error", resource_type |-> a.resource_type,
               field_path |-> a.field_path, error |-> r.stderr]
    ELSE [status |-> "success", resource_type |-> a.resource_type,
          field_path |-> a.field_path, explanation |-> r.stdout]

explain_resource_args == [resource_type : {"pod"}, field_path : {None, "spec"}]

\* list_api_resources, line 1033
list_api_resources_pre(a) == Pre(<<>>, <<"kubectl", "api-resources">>, FALSE)

\* list_api_resources, lines 1046-1055: the record of one line, or nothing
api_resource_of(line) ==
    LET parts == SplitSpace(line, <<>>)
    IN IF Len(parts) >= 5
       THEN << [name |-> parts[1],
                shortnames |-> IF parts[2] # "none" THEN parts[2] ELSE <<>>,
                apiversion |-> parts[3],
                namespaced |-> (parts[4] = "true"),
                kind |-> parts[5]] >>
       ELSE <<>>

RECURSIVE api_resources_of(_)
\* list_api_resources, lines 1045-1055: the records of the lines, in order
api_resources_of(lines) ==
    IF lines = <<>> THEN <<>>
    ELSE api_resource_of(Head(lines)) \o api_resources_of(Tail(lines))

\* The parse as it would be if the first line were not skipped.
parse_api_resources_KeepHeader(stdout) ==
    api_resources_of(SplitOn(Strip(stdout), "\n", <<>>))

\* list_api_resources, lines 1040-1055
parse_api_resources(stdout) ==
    LET lines == SplitOn(Strip(stdout), "\n", <<>>)
    IN IF Len(lines) > 1 THEN api_resources_of(Tail(lines)) ELSE <<>>

\* list_api_resources, lines 1034-1059
list_api_resources_post(a, r) ==
    IF r.kind = "raise" THEN [error |-> Lit("Failed to list API resources: ") \o Lit(r.text)]
    ELSE IF r.returncode # 0 THEN [status |-> "error", message |-> r.stderr]
    ELSE [status |-> "success", resources |-> parse_api_resources(r.stdout),
          total_count |-> Len(parse_api_resources(r.stdout))]

list_api_resources_args == {[self |-> "connector"]}

\* install_helm_chart, lines 391-412; values is <<>> for None or {}
install_helm_chart_pre(a) ==
    Pre(<<>>,
        <<"helm", "install", a.release_name, a.chart_name, "--namespace", a.namespace>>
          \o Opt(a.create_namespace, <<"--create-namespace">>)
          \o Opt(Truthy(a.version), <<"--version", a.version>>)
          \o Opt(Truthy(a.repo), <<"--repo", a.repo>>)
          \o Opt(Truthy(a.timeout), <<"--timeout", a.timeout>>)
          \o Opt(a.values # <<>>, <<"-f", TmpName>>),
        a.values # <<>>)

\* install_helm_chart, lines 414-431
install_helm_chart_post(a, r) ==
    IF r.kind = "raise" THEN [error |-> Lit("Failed to install Helm chart: ") \o Lit(r.text)]
    ELSE IF r.returncode # 0
         THEN [status |-> "error", message |-> r.stderr, chart_name |-> a.chart_name,
               release_name |-> a.release_name, namespace |-> a.namespace]
    ELSE [status |-> "success", message |-> r.stdout, chart_name |-> a.chart_name,
          release_name |-> a.release_name, namespace |-> a.namespace]

install_helm_chart_args ==
    [chart_name : {"nginx"}, release_name : {"web"}, namespace : {"default"},
     values : {<<>>, <<"replicas">>}, version : {None, "1.2"}, repo : {None, "https://r"},
     create_namespace : BOOLEAN, timeout : {"5m0s", ""}]

\* uninstall_helm_chart, lines 1208-1214
uninstall_helm_chart_pre(a) ==
    Pre(<<>>,
        <<"helm", "uninstall", a.release_name, "--namespace", a.namespace>>
          \o Opt(~a.purge, <<"--keep-history">>)
          \o Opt(Truthy(a.timeout), <<"--timeout", a.timeout>>),
        FALSE)

\* uninstall_helm_chart, lines 1216-1228
uninstall_helm_chart_post(a, r) ==
    IF r.kind = "raise"
    THEN [error |-> Lit("Failed to uninstall Helm release: ") \o Lit(r.text)]
    ELSE IF r.returncode # 0
         THEN [status |-> "error", release_name |-> a.release_name,
               namespace |-> a.namespace, message |-> r.stderr]
    ELSE [status |-> "success", release_name |-> a.release_name,
          namespace |-> a.namespace, message |-> r.stdout]

uninstall_helm_chart_args ==
    [release_name : {"web"}, namespace : {"default", "ns"}, purge : BOOLEAN,
     timeout : {"5m0s", ""}]

\* upgrade_helm_chart, lines 1262-1283; values is <<>> for None or {}
upgrade_helm_chart_pre(a) ==
    Pre(<<>>,
        <<"helm", "upgrade", a.release_name, a.chart_name, "--namespace", a.namespace>>
          \o Opt(a.install, <<"--install">>)
          \o Opt(Truthy(a.version), <<"--version", a.version>>)
          \o Opt(Truthy(a.repo), <<"--repo", a.repo>>)
          \o Opt(Truthy(a.timeout), <<"--timeout", a.timeout>>)
          \o Opt(a.values # <<>>, <<"-f", TmpName>>),
        a.values # <<>>)

\* upgrade_helm_chart, lines 1285-1302
upgrade_helm_chart_post(a, r) ==
    IF r.kind = "raise" THEN [error |-> Lit("Failed to upgrade Helm release: ") \o Lit(r.text)]
    ELSE IF r.returncode # 0
         THEN [status |-> "error", chart_name |-> a.chart_name,
               release_name |-> a.release_name, namespace |-> a.namespace,
               message |-> r.stderr]
    ELSE [status |-> "success", chart_name |-> a.chart_name,
          release_name |-> a.release_name, namespace |-> a.namespace,
          message |-> r.stdout]

upgrade_helm_chart_args ==
    [chart_name : {"nginx"}, release_name : {"web"}, namespace : {"default"},
     values : {<<>>, <<"replicas">>}, version : {None, "1.2"}, repo : {None, "https://r"},
     install : BOOLEAN, timeout : {"5m0s", ""}]

\* the operations that run one subprocess and wait for it
CliOps ==
    {"kubectl_apply", "kubectl_context", "kubectl_create", "kubectl_delete",
     "kubectl_describe", "kubectl_generic", "kubectl_get", "kubectl_logs", "kubectl_patch",
     "kubectl_rollout", "kubectl_scale", "explain_resource", "list_api_resources",
     "install_helm_chart", "uninstall_helm_chart", "upgrade_helm_chart"}

\* parameters each operation is called with
ArgsOf(o) ==
    CASE o = "kubectl_apply" -> kubectl_apply_args
      [] o = "kubectl_context" -> kubectl_context_args
      [] o = "kubectl_create" -> kubectl_create_args
      [] o = "kubectl_delete" -> kubectl_delete_args
      [] o = "kubectl_describe" -> kubectl_describe_args
      [] o = "kubectl_generic" -> kubectl_generic_args
      [] o = "kubectl_get" -> kubectl_get_args
      [] o = "kubectl_logs" -> kubectl_logs_args
      [] o = "kubectl_patch" -> kubectl_patch_args
      [] o = "kubectl_rollout" -> kubectl_rollout_args
      [] o = "kubectl_scale" -> kubectl_scale_args
      [] o = "explain_resource" -> explain_resource_args
      [] o = "list_api_resources" -> list_api_resources_args
      [] o = "install_helm_chart" -> install_helm_chart_args
      [] o = "uninstall_helm_chart" -> uninstall_helm_chart_args
      [] o = "upgrade_helm_chart" -> upgrade_helm_chart_args

\* the method's code up to its subprocess.run
PreOf(o, a) ==
    CASE o = "kubectl_apply" -> kubectl_apply_pre(a)
      [] o = "kubectl_context" -> kubectl_context_pre(a)
      [] o = "kubectl_create" -> kubectl_create_pre(a)
      [] o = "kubectl_delete" -> kubectl_delete_pre(a)
      [] o = "kubectl_describe" -> kubectl_describe_pre(a)
      [] o = "kubectl_generic" -> kubectl_generic_pre(a)
      [] o = "kubectl_get" -> kubectl_get_pre(a)
      [] o = "kubectl_logs" -> kubectl_logs_pre(a)
      [] o = "kubectl_patch" -> kubectl_patch_pre(a)
      [] o = "kubectl_rollout" -> kubectl_rollout_pre(a)
      [] o = "kubectl_scale" -> kubectl_scale_pre(a)
      [] o = "explain_resource" -> explain_resource_pre(a)
      [] o = "list_api_resources" -> list_api_resources_pre(a)
      [] o = "install_helm_chart" -> install_helm_chart_pre(a)
      [] o = "uninstall_helm_chart" -> uninstall_helm_chart_pre(a)
      [] o = "upgrade_helm_chart" -> upgrade_helm_chart_pre(a)

\* the method's code from the return of subprocess.run, or its except clause
PostOf(o, a, r) ==
    CASE o = "kubectl_apply" -> kubectl_apply_post(a, r)
      [] o = "kubectl_context" -> kubectl_context_post(a, r)
      [] o = "kubectl_create" -> kubectl_create_post(a, r)
      [] o = "kubectl_delete" -> kubectl_delete_post(a, r)
      [] o = "kubectl_describe" -> kubectl_describe_post(a, r)
      [] o = "kubectl_generic" -> kubectl_generic_post(a, r)
      [] o = "kubectl_get" -> kubectl_get_post(a, r)
      [] o = "kubectl_logs" -> kubectl_logs_post(a, r)
      [] o = "kubectl_patch" -> kubectl_patch_post(a, r)
      [] o = "kubectl_rollout" -> kubectl_rollout_post(a, r)
      [] o = "kubectl_scale" -> kubectl_scale_post(a, r)
      [] o = "explain_resource" -> explain_resource_post(a, r)
      [] o = "list_api_resources" -> list_api_resources_post(a, r)
      [] o = "install_helm_chart" -> install_helm_chart_post(a, r)
      [] o = "uninstall_helm_chart" -> uninstall_helm_chart_post(a, r)
      [] o = "upgrade_helm_chart" -> upgrade_helm_chart_post(a, r)

\* -------------------------------------------------- resource reader

\* An optional attribute of an SDK object is <<>> (None) or <<value>>; a dict
\* is the set of its <<key, value>> items.
OrEmptyDict(x) == IF x = <<>> THEN {} ELSE x[1]

\* `x or []` for an optional list
OrEmptyList(x) == IF x = <<>> THEN <<>> ELSE x[1]

\* `x or 0` for an optional int
OrZero(x) == IF x = <<>> THEN 0 ELSE x[1]

\* `t.isoformat() if t else None` for an optional datetime
IsoOrNone(t) == IF t = <<>> THEN None ELSE t[1].isoformat

\* The readiness test as it would be if the status entry's name were not compared.
container_ready_AnyName(statuses, name) ==
    \E i \in DOMAIN OrEmptyList(statuses) : OrEmptyList(statuses)[i].ready

\* get_pods, lines 80-82: any(cs.ready for cs in statuses or [] if cs.name == name)
container_ready(statuses, name) ==
    \E i \in DOMAIN OrEmptyList(statuses) :
        /\ OrEmptyList(statuses)[i].name = name
        /\ OrEmptyList(statuses)[i].ready

\* get_pods, lines 67-86
pod_info(pod) ==
    [name |-> pod.metadata.name,
     namespace |-> pod.metadata.namespace,
     status |-> pod.status.phase,
     node |-> pod.spec.node_name,
     created |-> IsoOrNone(pod.metadata.creation_timestamp),
     labels |-> OrEmptyDict(pod.metadata.labels),
     containers |->
        [i \in DOMAIN pod.spec.containers |->
            [name |-> pod.spec.containers[i].name,
             image |-> pod.spec.containers[i].image,
             ready |-> container_ready(pod.status.container_statuses,
                                       pod.spec.containers[i].name)]]]

\* get_deployments, lines 113-127
deployment_info(d) ==
    [name |-> d.metadata.name,
     namespace |-> d.metadata.namespace,
     replicas |-> d.spec.replicas,
     ready_replicas |-> OrZero(d.status.ready_replicas),
     available_replicas |-> OrZero(d.status.available_replicas),
     updated_replicas |-> OrZero(d.status.updated_replicas),
     created |-> IsoOrNone(d.metadata.creation_timestamp),
     labels |-> OrEmptyDict(d.metadata.labels),
     selector |-> OrEmptyDict(d.spec.selector.match_labels)]

\* The service record as it would be if an absent external_i_ps were left out.
service_info_Sparse(s) ==
    IF s.spec.external_i_ps = <<>>
    THEN [name |-> s.metadata.name, namespace |-> s.metadata.namespace,
          type |-> s.spec.type, cluster_ip |-> s.spec.cluster_ip,
          ports |-> <<>>, selector |-> OrEmptyDict(s.spec.selector),
          created |-> IsoOrNone(s.metadata.creation_timestamp),
          labels |-> OrEmptyDict(s.metadata.labels)]
    ELSE [name |-> s.metadata.name, namespace |-> s.metadata.namespace,
          type |-> s.spec.type, cluster_ip |-> s.spec.cluster_ip,
          external_ips |-> OrEmptyList(s.spec.external_i_ps),
          ports |-> [i \in DOMAIN OrEmptyList(s.spec.ports) |->
                        [name |-> OrEmptyList(s.spec.ports)[i].name,
                         port |-> OrEmptyList(s.spec.ports)[i].port,
                         target_port |-> OrEmptyList(s.spec.ports)[i].target_port,
                         protocol |-> OrEmptyList(s.spec.ports)[i].protocol]],
          selector |-> OrEmptyDict(s.spec.selector),
          created |-> IsoOrNone(s.metadata.creation_timestamp),
          labels |-> OrEmptyDict(s.metadata.labels)]

\* get_services, lines 154-174
service_info(s) ==
    [name |-> s.metadata.name,
     namespace |-> s.metadata.namespace,
     type |-> s.spec.type,
     cluster_ip |-> s.spec.cluster_ip,
     external_ips |-> OrEmptyList(s.spec.external_i_ps),
     ports |-> [i \in DOMAIN OrEmptyList(s.spec.ports) |->
                   [name |-> OrEmptyList(s.spec.ports)[i].name,
                    port |-> OrEmptyList(s.spec.ports)[i].port,
                    target_port |-> OrEmptyList(s.spec.ports)[i].target_port,
                    protocol |-> OrEmptyList(s.spec.ports)[i].protocol]],
     selector |-> OrEmptyDict(s.spec.selector),
     created |-> IsoOrNone(s.metadata.creation_timestamp),
     labels |-> OrEmptyDict(s.metadata.labels)]

\* get_namespaces, lines 198-207
namespace_info(n) ==
    [name |-> n.metadata.name,
     status |-> n.status.phase,
     created |-> IsoOrNone(n.metadata.creation_timestamp),
     labels |-> OrEmptyDict(n.metadata.labels)]

\* what a cluster API call can do: raise, or return a list object
ApiRaised(exc, text) == [kind |-> "raise", exception |-> exc, text |-> text]
ApiItems(items) == [kind |-> "items", items |-> items]

\* the except clauses shared by the list operations (lines 91-94, 132-135, 179-182, 212-215)
api_error(r) ==
    IF r.exception = "ApiException"
    THEN [error |-> Lit("Kubernetes API error: ") \o Lit(r.text)]
    ELSE [error |-> Lit("Unexpected error: ") \o Lit(r.text)]

\* get_pods as it would be if the list were returned last object first.
get_pods_Reversed(r) ==
    IF r.kind = "raise" THEN api_error(r)
    ELSE [pods |-> [i \in DOMAIN r.items |-> pod_info(r.items[Len(r.items) + 1 - i])],
          total_count |-> Len(r.items)]

\* get_pods, lines 62-94
get_pods(r) ==
    IF r.kind = "raise" THEN api_error(r)
    ELSE [pods |-> [i \in DOMAIN r.items |-> pod_info(r.items[i])],
          total_count |-> Len([i \in DOMAIN r.items |-> pod_info(r.items[i])])]

\* get_deployments, lines 108-135
get_deployments(r) ==
    IF r.kind = "raise" THEN api_error(r)
    ELSE [deployments |-> [i \in DOMAIN r.items |-> deployment_info(r.items[i])],
          total_count |-> Len([i \in DOMAIN r.items |-> deployment_info(r.items[i])])]

\* get_services, lines 149-182
get_services(r) ==
    IF r.kind = "raise" THEN api_error(r)
    ELSE [services |-> [i \in DOMAIN r.items |-> service_info(r.items[i])],
          total_count |-> Len([i \in DOMAIN r.items |-> service_info(r.items[i])])]

\* get_namespaces, lines 193-215
get_namespaces(r) ==
    IF r.kind = "raise" THEN api_error(r)
    ELSE [namespaces |-> [i \in DOMAIN r.items |-> namespace_info(r.items[i])],
          total_count |-> Len([i \in DOMAIN r.items |-> namespace_info(r.items[i])])]

\* objects the cluster API may return
Stamp == <<[isoformat |-> "2024-05-01T10:00:00+00:00"]>>

PodSamples ==
    { [metadata |-> [name |-> "web-1", namespace |-> "default", creation_timestamp |-> Stamp,
                     labels |-> <<{<<"app", "web">>}>>],
       status |-> [phase |-> "Running",
                   container_statuses |-> << << [name |-> "app", ready |-> TRUE],
                                                [name |-> "proxy", ready |-> FALSE] >> >>],
       spec |-> [node_name |-> "node-1",
                 containers |-> << [name |-> "app", image |-> "web:1"],
                                   [name |-> "proxy", image |-> "envoy:1"],
                                   [name |-> "late", image |-> "late:1"] >>]],
      [metadata |-> [name |-> "job-1", namespace |-> "default", creation_timestamp |-> <<>>,
                     labels |-> <<>>],
       status |-> [phase |-> "Pending", container_statuses |-> <<>>],
       spec |-> [node_name |-> None,
                 containers |-> << [name |-> "app", image |-> "job:1"] >>]] }

DeploymentSamples ==
    { [metadata |-> [name |-> "web", namespace |-> "default", creation_timestamp |-> Stamp,
                     labels |-> <<{<<"app", "web">>}>>],
       spec |-> [replicas |-> 3, selector |-> [match_labels |-> <<{<<"app", "web">>}>>]],
       status |-> [ready_replicas |-> <<2>>, available_replicas |-> <<2>>,
                   updated_replicas |-> <<3>>]],
      [metadata |-> [name |-> "idle", namespace |-> "default", creation_timestamp |-> <<>>,
                     labels |-> <<>>],
       spec |-> [replicas |-> 1, selector |-> [match_labels |-> <<>>]],
       status |-> [ready_replicas |-> <<>>, available_replicas |-> <<>>,
                   updated_replicas |-> <<>>]] }

ServiceSamples ==
    { [metadata |-> [name |-> "web", namespace |-> "default", creation_timestamp |-> Stamp,
                     labels |-> <<{<<"app", "web">>}>>],
       spec |-> [type |-> "ClusterIP", cluster_ip |-> "10.0.0.1",
                 external_i_ps |-> << <<"1.2.3.4">> >>,
                 ports |-> << << [name |-> "http", port |-> 80, target_port |-> 8080,
                                  protocol |-> "TCP"] >> >>,
                 selector |-> <<{<<"app", "web">>}>>]],
      [metadata |-> [name |-> "headless", namespace |-> "default", creation_timestamp |-> <<>>,
                     labels |-> <<>>],
       spec |-> [type |-> "ClusterIP", cluster_ip |-> "None", external_i_ps |-> <<>>,
                 ports |-> <<>>, selector |-> <<>>]] }

NamespaceSamples ==
    { [metadata |-> [name |-> "default", creation_timestamp |-> Stamp,
                     labels |-> <<{<<"team", "a">>}>>],
       status |-> [phase |-> "Active"]],
      [metadata |-> [name |-> "old", creation_timestamp |-> <<>>, labels |-> <<>>],
       status |-> [phase |-> "Terminating"]] }

\* Longest list the cluster API returns in the model.
MaxItems == 2

\* sequences over S of length at most n
SeqsUpTo(S, n) == UNION {[1..k -> S] : k \in 0..n}

\* -------------------------------------------------------- read tool

\* The selection as it would be without the short names deploy, svc and ns.
reader_of_NoShort(resource_type) ==
    IF resource_type \in {"pod", "pods"} THEN "get_pods"
    ELSE IF resource_type \in {"deployment", "deployments"} THEN "get_deployments"
    ELSE IF resource_type \in {"service", "services"} THEN "get_services"
    ELSE IF resource_type \in {"namespace", "namespaces"} THEN "get_namespaces"
    ELSE "unsupported"

\* kubernetes_read_tool, lines 43-55: the connector read a resource_type selects
reader_of(resource_type) ==
    IF resource_type \in {"pod", "pods"} THEN "get_pods"
    ELSE IF resource_type \in {"deployment", "deployments", "deploy"} THEN "get_deployments"
    ELSE IF resource_type \in {"service", "services", "svc"} THEN "get_services"
    ELSE IF resource_type \in {"namespace", "namespaces", "ns"} THEN "get_namespaces"
    ELSE "unsupported"

NoRequest == [none |-> TRUE]

\* kubernetes_read_tool, lines 44-51, with the connector reads' one API call
\* each (connector lines 63, 109, 150, 194): the request a resource_type
\* leads to; an empty label_selector is passed on as None, and get_namespaces
\* takes no namespace.
read_request(a) ==
    CASE reader_of(a.resource_type) = "get_pods" ->
           [call |-> "list_namespaced_pod", namespace |-> a.namespace,
            label_selector |-> IF a.label_selector # "" THEN a.label_selector ELSE None]
      [] reader_of(a.resource_type) = "get_deployments" ->
           [call |-> "list_namespaced_deployment", namespace |-> a.namespace]
      [] reader_of(a.resource_type) = "get_services" ->
           [call |-> "list_namespaced_service", namespace |-> a.namespace]
      [] reader_of(a.resource_type) = "get_namespaces" -> [call |-> "list_namespace"]

\* json.dumps(value, indent=2, default=str): the JSON text of a value
json_dumps(value) == [json |-> value]

\* [TextContent(type="text", text=...)]
text_content(value) == << [type |-> "text", text |-> json_dumps(value)] >>

\* what the cluster API may answer to the reader's one call
ApiAnswers(reader) ==
    {ApiRaised("ApiException", "(403) Forbidden"), ApiRaised("Exception", "timed out")}
    \cup {ApiItems(l) : l \in SeqsUpTo(
            CASE reader = "get_pods" -> PodSamples
              [] reader = "get_deployments" -> DeploymentSamples
              [] reader = "get_services" -> ServiceSamples
              [] reader = "get_namespaces" -> NamespaceSamples, MaxItems)}

\* the connector read, given the API's answer
ReadOf(reader, r) ==
    CASE reader = "get_pods" -> get_pods(r)
      [] reader = "get_deployments" -> get_deployments(r)
      [] reader = "get_services" -> get_services(r)
      [] reader = "get_namespaces" -> get_namespaces(r)

kubernetes_read_tool_args ==
    [resource_type : {"pod", "pods", "deployment", "deployments", "deploy", "service",
                      "services", "svc", "namespace", "namespaces", "ns", "nodes", ""},
     namespace : {"default", "kube-system"}, label_selector : {"", "app=web"},
     k8s_connector : {0, 1}]

\* ------------------------------------------- pod logs, exec and ping

\* Texts the cluster API answers a log or exec request with
ApiTexts == {<<>>, <<"a">>, <<"a", "\n">>, <<"a", "\n", "b">>}

ApiText(t) == [kind |-> "text", text |-> t]

\* len(logs.split("\n")) if logs else 0
lines_retrieved(logs) ==
    IF logs = <<>> THEN 0 ELSE Cardinality({i \in DOMAIN logs : logs[i] = "\n"}) + 1

\* get_pod_logs, lines 238-254
get_pod_logs(a, r) ==
    IF r.kind = "raise" THEN api_error(r)
    ELSE [pod_name |-> a.pod_name, namespace |-> a.namespace, container |-> a.container,
          logs |-> r.text, lines_retrieved |-> lines_retrieved(r.text)]

get_pod_logs_args ==
    [pod_name : {"web-0"}, namespace : {"default"}, container : {None, "app"}, lines : {100}]

\* exec_in_pod, lines 295-321; command is <<>> for None
exec_in_pod(a, r) ==
    IF r.kind = "raise" THEN api_error(r)
    ELSE [pod_name |-> a.pod_name, namespace |-> a.namespace, container |-> a.container,
          command |-> IF a.command = <<>> THEN <<"/bin/sh", "-c", "ls">> ELSE a.command,
          output |-> r.text]

exec_in_pod_args ==
    [pod_name : {"web-0"}, namespace : {"default"}, command : {<<>>, <<"date">>},
     container : {None, "app"}]

\* ping, lines 1067-1074
ping(a, r) ==
    IF r.kind = "raise"
    THEN [status |-> "error",
          message |-> IF r.exception = "ApiException"
                      THEN Lit("Kubernetes API error: ") \o Lit(r.text)
                      ELSE Lit("Connection error: ") \o Lit(r.text)]
    ELSE [status |-> "success", message |-> Lit("Kubernetes API connection is active")]

ping_args == {[self |-> "connector"]}

ApiOps == {"get_pod_logs", "exec_in_pod", "ping"}

\* The one request of each operation (lines 239-241, 299-309, 1069)
api_request(o, a) ==
    CASE o = "get_pod_logs" ->
           [call |-> "read_namespaced_pod_log", name |-> a.pod_name,
            namespace |-> a.namespace, container |-> a.container, tail_lines |-> a.lines]
      [] o = "exec_in_pod" ->
           [call |-> "connect_get_namespaced_pod_exec", name |-> a.pod_name,
            namespace |-> a.namespace, container |-> a.container,
            command |-> IF a.command = <<>> THEN <<"/bin/sh", "-c", "ls">> ELSE a.command]
      [] o = "ping" -> [call |-> "list_namespace", limit |-> 1]

ApiArgsOf(o) ==
    CASE o = "get_pod_logs" -> get_pod_logs_args
      [] o = "exec_in_pod" -> exec_in_pod_args
      [] o = "ping" -> ping_args

ApiPostOf(o, a, r) ==
    CASE o = "get_pod_logs" -> get_pod_logs(a, r)
      [] o = "exec_in_pod" -> exec_in_pod(a, r)
      [] o = "ping" -> ping(a, r)

\* What the cluster API does with the one request of a log, exec or ping call
ApiTextAnswers ==
    {ApiRaised("ApiException", "(403) Forbidden"), ApiRaised("Exception", "timed out")}
    \cup {ApiText(t) : t \in ApiTexts}

\* ------------------------------------------- one operation at a time

NoResult == [pending |-> TRUE]

DispatchIdle ==
    /\ op = ""
    /\ args = [none |-> TRUE]
    /\ phase = "idle"
    /\ cmd = <<>>
    /\ spawned = 0
    /\ live = 0
    /\ tmp = "none"
    /\ outcome = NoOutcome
    /\ apiCalls = 0
    /\ result = NoResult

\* A dispatcher or Helm operation is called: it rejects its parameters, or
\* builds the command and hands it to subprocess.run, which spawns the child
\* or raises. A temporary file lives inside the `with` block around the run.
Call(o, a, spawnRaises) ==
    /\ phase = "idle"
    /\ op' = o
    /\ args' = a
    /\ apiCalls' = 0
    /\ LET p == PreOf(o, a)
       IN IF p.reject # <<>>
          THEN /\ ~spawnRaises
               /\ result' = p.reject[1]
               /\ phase' = "returned"
               /\ cmd' = <<>>
               /\ UNCHANGED <<spawned, live, tmp, outcome>>
          ELSE IF spawnRaises
          THEN /\ result' = PostOf(o, a, Raised)
               /\ outcome' = Raised
               /\ phase' = "returned"
               /\ cmd' = p.cmd
               /\ tmp' = IF p.tmp THEN "deleted" ELSE "none"
               /\ UNCHANGED <<spawned, live>>
          ELSE /\ phase' = "running"
               /\ cmd' = p.cmd
               /\ spawned' = spawned + 1
               /\ live' = live + 1
               /\ tmp' = IF p.tmp THEN "exists" ELSE "none"
               /\ UNCHANGED <<outcome, result>>
    /\ UNCHANGED <<hvars, xvars>>

\* The exit as it would be if a failed command were run a second time.
ProcessExit_Retry(rc, out, err) ==
    /\ phase = "running"
    /\ IF rc # 0 /\ spawned < 2
       THEN /\ spawned' = spawned + 1
            /\ UNCHANGED <<live, outcome, tmp, result, phase>>
       ELSE /\ live' = live - 1
            /\ outcome' = Exited(rc, out, err)
            /\ tmp' = IF tmp = "exists" THEN "deleted" ELSE tmp
            /\ result' = PostOf(op, args, Exited(rc, out, err))
            /\ phase' = "returned"
            /\ UNCHANGED spawned
    /\ UNCHANGED <<op, args, cmd, apiCalls, hvars, xvars>>

\* The exit as it would be if the temporary values file outlived the call.
ProcessExit_KeepTmp(rc, out, err) ==
    /\ phase = "running"
    /\ live' = live - 1
    /\ outcome' = Exited(rc, out, err)
    /\ result' = PostOf(op, args, Exited(rc, out, err))
    /\ phase' = "returned"
    /\ UNCHANGED <<op, args, cmd, spawned, tmp, apiCalls, hvars, xvars>>

\* The child exits; subprocess.run returns its CompletedProcess, the `with`
\* block (if any) deletes the temporary file, and the method builds its result.
ProcessExit(rc, out, err) ==
    /\ phase = "running"
    /\ live' = live - 1
    /\ outcome' = Exited(rc, out, err)
    /\ tmp' = IF tmp = "exists" THEN "deleted" ELSE tmp
    /\ result' = PostOf(op, args, Exited(rc, out, err))
    /\ phase' = "returned"
    /\ UNCHANGED <<op, args, cmd, spawned, apiCalls, hvars, xvars>>

\* kubernetes_read_tool, lines 41-42: whether the default connector has to be
\* built, which happens when none was passed and the singleton has no entry.
BuildsConnector(a) == a.k8s_connector = 0 /\ instances = 0

\* kubernetes_read_tool, lines 41-58, up to the connector's cluster API call.
\* Lines 41-42 stand before the try: a connector that has to be built loads
\* the in-cluster configuration, and its ConfigException leaves the call.
ReadTool(a) ==
    /\ phase = "idle"
    /\ a.k8s_connector \in 0..constructed
    /\ op' = "kubernetes_read_tool"
    /\ args' = a
    /\ IF BuildsConnector(a) /\ ~inCluster
       THEN /\ escaped' = "ConfigException"
            /\ phase' = "returned"
            /\ UNCHANGED <<result, apiCalls, request, instances, constructed, configLoads,
                           first>>
       ELSE /\ escaped' = ""
            /\ IF BuildsConnector(a)
               THEN /\ instances' = constructed + 1
                    /\ constructed' = constructed + 1
                    /\ configLoads' = configLoads \cup {"incluster"}
                    /\ first' = IF first = 0 THEN constructed + 1 ELSE first
               ELSE UNCHANGED <<instances, constructed, configLoads, first>>
            /\ IF reader_of(a.resource_type) = "unsupported"
               THEN /\ result' = text_content(
                           [error |-> Lit("Resource type '") \o Lit(a.resource_type)
                                      \o Lit("' not supported")])
                    /\ phase' = "returned"
                    /\ UNCHANGED <<apiCalls, request>>
               ELSE /\ phase' = "api"
                    /\ apiCalls' = apiCalls + 1
                    /\ request' = read_request(a)
                    /\ UNCHANGED result
    /\ UNCHANGED <<cmd, spawned, live, tmp, outcome, fvars, pvars, rvars>>
    /\ UNCHANGED <<closed, inCluster, hpc, hkind, hpath, hloaded, hobj, hret, hraised, hpre,
                   cleanupResult>>

\* The answer as it would be handled if a failed API call were issued again.
ApiReturn_Retry(r) ==
    /\ phase = "api"
    /\ op = "kubernetes_read_tool"
    /\ r \in ApiAnswers(reader_of(args.resource_type))
    /\ IF r.kind = "raise" /\ apiCalls < 2
       THEN /\ apiCalls' = apiCalls + 1
            /\ UNCHANGED <<outcome, result, phase>>
       ELSE /\ outcome' = r
            /\ result' = text_content(ReadOf(reader_of(args.resource_type), r))
            /\ phase' = "returned"
            /\ UNCHANGED apiCalls
    /\ UNCHANGED <<op, args, cmd, spawned, live, tmp, hvars, xvars>>

\* The cluster API answers; the connector read maps the answer and the tool
\* wraps its JSON text.
ApiReturn(r) ==
    /\ phase = "api"
    /\ op = "kubernetes_read_tool"
    /\ r \in ApiAnswers(reader_of(args.resource_type))
    /\ outcome' = r
    /\ result' = text_content(ReadOf(reader_of(args.resource_type), r))
    /\ phase' = "returned"
    /\ UNCHANGED <<op, args, cmd, spawned, live, tmp, apiCalls, hvars, xvars>>

\* get_pod_logs, exec_in_pod or ping is called: the v1_client the
\* constructor set is there, and the request goes to the cluster API.
ApiCall(o, a) ==
    /\ phase = "idle"
    /\ op' = o
    /\ args' = a
    /\ phase' = "api"
    /\ apiCalls' = apiCalls + 1
    /\ request' = api_request(o, a)
    /\ UNCHANGED <<cmd, spawned, live, tmp, outcome, result, hvars, fvars, pvars, escaped,
                   rvars>>

\* The cluster API answers or raises; the method builds its result.
ApiOpReturn(r) ==
    /\ phase = "api"
    /\ op \in ApiOps
    /\ outcome' = r
    /\ result' = ApiPostOf(op, args, r)
    /\ phase' = "returned"
    /\ UNCHANGED <<op, args, cmd, spawned, live, tmp, apiCalls, hvars, xvars>>

\* The caller takes the result; the next call starts afresh.
Return ==
    /\ phase = "returned"
    /\ op' = ""
    /\ args' = [none |-> TRUE]
    /\ phase' = "idle"
    /\ cmd' = <<>>
    /\ spawned' = 0
    /\ live' = 0
    /\ tmp' = "none"
    /\ outcome' = NoOutcome
    /\ apiCalls' = 0
    /\ result' = NoResult
    /\ escaped' = ""
    /\ request' = NoRequest
    /\ UNCHANGED <<hvars, fvars, pvars, rvars>>

\* ------------------------------------------------ kubectl_logs, follow

\* Lines the child may write before the caller stops reading.
MaxLines == 2

\* Lines kubectl may write to stdout
LogLines == { <<"a", "\n">>, <<"b", "\n">> }

kubectl_logs_follow_args ==
    [resource_name : {"web"}, container : {None, "app"}, namespace : {"default"},
     previous : {FALSE}, since : {None}, tail : {<<>>}, follow : {TRUE},
     max_follow_seconds : {1, 60}]

FollowIdle ==
    /\ fpc = "idle"
    /\ fargs = [none |-> TRUE]
    /\ child = "none"
    /\ sig = ""
    /\ death = ""
    /\ sent = <<>>
    /\ output = <<>>
    /\ ferr = <<>>
    /\ timer = "none"
    /\ returncode = <<>>
    /\ pending = ""
    /\ fresult = [pending |-> TRUE]

\* The status waitpid reports for a child that ended this way.
ExitStatus(cause) ==
    IF cause = "SIGKILL" THEN 0 - 9 ELSE IF cause = "SIGTERM" THEN 0 - 15 ELSE 0

\* Popen.poll(), called first by Popen.send_signal: a child that has exited
\* is waited for and its status stored in returncode; otherwise nothing changes.
PollReaps == returncode = <<>> /\ child = "zombie"
ChildAfterPoll == IF PollReaps THEN "reaped" ELSE child
CodeAfterPoll == IF PollReaps THEN <<ExitStatus(death)>> ELSE returncode

\* Popen.send_signal(s): after the poll, os.kill unless a return code is known.
\* Only a running child is affected; SIGKILL overrides SIGTERM.
SigAfterSend(s) ==
    IF CodeAfterPoll = <<>> /\ child = "running" /\ sig # "SIGKILL" THEN s ELSE sig

RECURSIVE JoinLines(_)
\* "".join(output)
JoinLines(l) == IF l = <<>> THEN <<>> ELSE Head(l) \o JoinLines(Tail(l))

\* The loop body as it would be if new lines were put in front.
AppendLine_Front(l, line) == <<line>> \o l

\* kubectl_logs, line 836: output.append(line)
AppendLine(l, line) == Append(l, line)

\* kubectl_logs, lines 841-859: the result once stderr has been read
kubectl_logs_follow_result(a, out, err, rc) ==
    IF err # <<>>
    THEN [status |-> "error", resource_name |-> a.resource_name,
          namespace |-> a.namespace, message |-> err]
    ELSE [status |-> "success", resource_name |-> a.resource_name,
          namespace |-> a.namespace, container |-> a.container,
          logs |-> JoinLines(out), truncated |-> (rc = <<>>)]

\* kubectl_logs(follow=True), lines 813-834: Popen spawns the child or raises;
\* the Timer is created and started (start() may raise when no thread can be
\* started, which leads through the finally block).
FollowCall(a, popenRaises, startRaises) ==
    /\ fpc = "idle"
    /\ ~(popenRaises /\ startRaises)
    /\ fargs' = a
    /\ IF popenRaises
       THEN /\ fresult' = [error |-> Lit("Failed to get logs: ") \o Lit(SpawnError)]
            /\ fpc' = "returned"
            /\ UNCHANGED <<child, timer, pending>>
       ELSE /\ child' = "running"
            /\ timer' = IF startRaises THEN "created" ELSE "pending"
            /\ pending' = IF startRaises THEN "RuntimeError" ELSE ""
            /\ fpc' = IF startRaises THEN "cancel" ELSE "reading"
            /\ UNCHANGED fresult
    /\ UNCHANGED <<sig, death, sent, output, ferr, returncode>>
    /\ UNCHANGED <<hvars, dvars, pvars, escaped, request, rvars>>

\* The child writes a line to stdout.
ChildWrite(line) ==
    /\ child = "running"
    /\ Len(sent) < MaxLines
    /\ sent' = Append(sent, line)
    /\ UNCHANGED <<fpc, fargs, child, sig, death, output, ferr, timer, returncode, pending,
                   fresult>>
    /\ UNCHANGED <<hvars, dvars, pvars, escaped, request, rvars>>

\* The child ends, by itself or by a signal it was sent: its pipes reach end of
\* file. What it wrote to stderr is fixed now.
ChildClose(err, cause) ==
    /\ child = "running"
    /\ cause \in {"exit"} \cup ({sig} \ {""})
    /\ child' = "closed"
    /\ death' = cause
    /\ ferr' = err
    /\ UNCHANGED <<fpc, fargs, sig, sent, output, timer, returncode, pending, fresult>>
    /\ UNCHANGED <<hvars, dvars, pvars, escaped, request, rvars>>

\* The kernel has finished the child's exit: it can be waited for.
ChildZombie ==
    /\ child = "closed"
    /\ child' = "zombie"
    /\ UNCHANGED <<fpc, fargs, sig, death, sent, output, ferr, timer, returncode, pending,
                   fresult>>
    /\ UNCHANGED <<hvars, dvars, pvars, escaped, request, rvars>>

\* kubectl_logs, lines 835-836: the loop takes the next line.
ReadLine ==
    /\ fpc = "reading"
    /\ Len(output) < Len(sent)
    /\ output' = AppendLine(output, sent[Len(output) + 1])
    /\ UNCHANGED <<fpc, fargs, child, sig, death, sent, ferr, timer, returncode, pending,
                   fresult>>
    /\ UNCHANGED <<hvars, dvars, pvars, escaped, request, rvars>>

\* kubectl_logs, line 835: the stream is at end of file, the loop ends.
ReadEOF ==
    /\ fpc = "reading"
    /\ child \in {"closed", "zombie", "reaped"}
    /\ Len(output) = Len(sent)
    /\ fpc' = "cancel"
    /\ UNCHANGED <<fargs, child, sig, death, sent, output, ferr, timer, returncode, pending,
                   fresult>>
    /\ UNCHANGED <<hvars, dvars, pvars, escaped, request, rvars>>

\* kubectl_logs, line 835: reading raises (bytes that are no text), the
\* finally block runs with the exception on its way.
ReadRaises ==
    /\ fpc = "reading"
    /\ Len(output) < Len(sent)
    /\ pending' = "UnicodeDecodeError"
    /\ fpc' = "cancel"
    /\ UNCHANGED <<fargs, child, sig, death, sent, output, ferr, timer, returncode, fresult>>
    /\ UNCHANGED <<hvars, dvars, pvars, escaped, request, rvars>>

\* The timer as it would be if its function did not kill.
TimerFire_NoKill ==
    /\ timer = "pending"
    /\ timer' = "fired"
    /\ UNCHANGED <<fpc, fargs, child, sig, death, sent, output, ferr, returncode, pending,
                   fresult>>
    /\ UNCHANGED <<hvars, dvars, pvars, escaped, request, rvars>>

\* kubectl_logs, line 832: max_follow_seconds have passed and the timer's
\* thread calls process.kill().
TimerFire ==
    /\ timer = "pending"
    /\ timer' = "fired"
    /\ child' = ChildAfterPoll
    /\ returncode' = CodeAfterPoll
    /\ sig' = SigAfterSend("SIGKILL")
    /\ UNCHANGED <<fpc, fargs, death, sent, output, ferr, pending, fresult>>
    /\ UNCHANGED <<hvars, dvars, pvars, escaped, request, rvars>>

\* kubectl_logs, line 838: kill_timer.cancel()
FollowCancel ==
    /\ fpc = "cancel"
    /\ timer' = IF timer \in {"created", "pending"} THEN "cancelled" ELSE timer
    /\ fpc' = "terminate"
    /\ UNCHANGED <<fargs, child, sig, death, sent, output, ferr, returncode, pending,
                   fresult>>
    /\ UNCHANGED <<hvars, dvars, pvars, escaped, request, rvars>>

\* kubectl_logs, lines 839 and 878-879: process.terminate(); an exception on
\* its way reaches the except clause, which returns.
FollowTerminate ==
    /\ fpc = "terminate"
    /\ child' = ChildAfterPoll
    /\ returncode' = CodeAfterPoll
    /\ sig' = SigAfterSend("SIGTERM")
    /\ IF pending # ""
       THEN /\ fresult' = [error |-> Lit("Failed to get logs: ") \o Lit(pending)]
            /\ fpc' = "returned"
       ELSE /\ fpc' = "drain"
            /\ UNCHANGED fresult
    /\ UNCHANGED <<fargs, death, sent, output, ferr, timer, pending>>
    /\ UNCHANGED <<hvars, dvars, pvars, escaped, request, rvars>>

\* kubectl_logs, lines 841-859: process.stderr.read() returns at end of file
\* and the result is built.
FollowDrain ==
    /\ fpc = "drain"
    /\ child \in {"closed", "zombie", "reaped"}
    /\ fresult' = kubectl_logs_follow_result(fargs, output, ferr, returncode)
    /\ fpc' = "returned"
    /\ UNCHANGED <<fargs, child, sig, death, sent, output, ferr, timer, returncode, pending>>
    /\ UNCHANGED <<hvars, dvars, pvars, escaped, request, rvars>>

\* The caller takes the result; the Popen object is dropped with the call.
FollowReturn ==
    /\ fpc = "returned"
    /\ fpc' = "idle"
    /\ fargs' = [none |-> TRUE]
    /\ child' = "none"
    /\ sig' = ""
    /\ death' = ""
    /\ sent' = <<>>
    /\ output' = <<>>
    /\ ferr' = <<>>
    /\ timer' = "none"
    /\ returncode' = <<>>
    /\ pending' = ""
    /\ fresult' = [pending |-> TRUE]
    /\ UNCHANGED <<hvars, dvars, pvars, escaped, request, rvars>>

\* ------------------------------------------------------ port-forward

\* kubectl port-forward children spawned in all.
MaxProcs == 2

port_forward_args ==
    [resource_type : {"pod"}, name : {"web", "db"}, local_port : {8080},
     remote_port : {80}, namespace : {"default"}, address : {"localhost", "0.0.0.0"}]

\* port_forward, lines 1102-1111
port_forward_cmd(a) ==
    <<"kubectl", "port-forward", a.resource_type \o "/" \o a.name,
      Str(a.local_port) \o ":" \o Str(a.remote_port), "-n", a.namespace,
      "--address", a.address>>

\* port_forward, line 1120: f"{namespace}/{resource_type}/{name}/{local_port}/{remote_port}"
process_key_of(a) ==
    a.namespace \o "/" \o a.resource_type \o "/" \o a.name \o "/" \o Str(a.local_port)
      \o "/" \o Str(a.remote_port)

\* A dict in insertion order is a sequence of <<key, value>> pairs.
DictKeys(m) == {m[i][1] : i \in DOMAIN m}

\* m[k]
DictGet(m, k) == m[CHOOSE i \in DOMAIN m : m[i][1] = k][2]

\* m[k] = v: a new key is added at the end, a key in use gets the new value
DictPut(m, k, v) ==
    IF k \in DictKeys(m)
    THEN [i \in DOMAIN m |-> IF m[i][1] = k THEN <<k, v>> ELSE m[i]]
    ELSE Append(m, <<k, v>>)

\* The deletion as it would be if it emptied the dict.
DictDel_All(m, k) == <<>>

\* del m[k]
DictDel(m, k) == SelectSeq(m, LAMBDA e : e[1] # k)

ForwardIdle ==
    /\ hasMap = FALSE
    /\ sessions = <<>>
    /\ procs = <<>>
    /\ ppc = "idle"
    /\ pop = ""
    /\ pargs = [none |-> TRUE]
    /\ presult = [pending |-> TRUE]

\* str(e) of subprocess.TimeoutExpired
TimeoutText == "timed out after 5 seconds"

\* process.terminate(); process.wait(timeout=5): a child that has ended is
\* reaped, a running child ends on SIGTERM and is reaped, unless it does not
\* end within five seconds: then wait raises TimeoutExpired.
WaitTimesOut(ps, pid) == ps[pid].state = "running" /\ ps[pid].stubborn

Reaped(ps, pid) == [ps EXCEPT ![pid].state = "reaped"]

RECURSIVE StopAll(_, _, _)
\* stop_port_forward, lines 1177-1181: the loop over list(items()); the first
\* wait that times out ends it with the exception.
StopAll(m, ps, count) ==
    IF m = <<>> THEN [sessions |-> m, procs |-> ps, count |-> count, raised |-> FALSE]
    ELSE IF WaitTimesOut(ps, m[1][2])
         THEN [sessions |-> m, procs |-> ps, count |-> count, raised |-> TRUE]
    ELSE StopAll(Tail(m), Reaped(ps, m[1][2]), count + 1)

\* port_forward, lines 1101-1123: Popen spawns the child or raises; the map is
\* created on first use and the child stored under its key; the caller sleeps.
PortForward(a, popenRaises, stubborn) ==
    /\ ppc = "idle"
    /\ pop' = "port_forward"
    /\ pargs' = a
    /\ IF popenRaises
       THEN /\ ~stubborn
            /\ presult' = [error |-> Lit("Failed to set up port forwarding: ")
                                      \o Lit(SpawnError)]
            /\ ppc' = "returned"
            /\ UNCHANGED <<hasMap, sessions, procs>>
       ELSE /\ Len(procs) < MaxProcs
            /\ procs' = Append(procs, [key |-> process_key_of(a), cmd |-> port_forward_cmd(a),
                                       state |-> "running", stubborn |-> stubborn,
                                       stderr |-> <<>>])
            /\ hasMap' = TRUE
            /\ sessions' = DictPut(sessions, process_key_of(a), Len(procs) + 1)
            /\ ppc' = "sleeping"
            /\ UNCHANGED presult
    /\ UNCHANGED <<hvars, dvars, fvars, escaped, request, rvars>>

\* A port-forward child ends by itself (the port is taken, the pod is gone).
ProcExit(pid, err) ==
    /\ pid \in DOMAIN procs
    /\ procs[pid].state = "running"
    /\ procs' = [procs EXCEPT ![pid].state = "zombie", ![pid].stderr = err]
    /\ UNCHANGED <<hasMap, sessions, ppc, pop, pargs, presult>>
    /\ UNCHANGED <<hvars, dvars, fvars, escaped, request, rvars>>

\* The return as it would be without the poll: always the success record.
PortForwardPoll_NoPoll ==
    /\ ppc = "sleeping"
    /\ presult' = [status |-> "success", resource_type |-> pargs.resource_type,
                   name |-> pargs.name, namespace |-> pargs.namespace,
                   local_port |-> pargs.local_port, remote_port |-> pargs.remote_port,
                   address |-> pargs.address, process_key |-> process_key_of(pargs),
                   message |-> Lit("Port forwarding started")]
    /\ ppc' = "returned"
    /\ UNCHANGED <<hasMap, sessions, procs, pop, pargs>>
    /\ UNCHANGED <<hvars, dvars, fvars, escaped, request, rvars>>

\* port_forward, lines 1125-1148: after the sleep, process.poll() decides.
PortForwardPoll ==
    /\ ppc = "sleeping"
    /\ LET pid == Len(procs)
           a == pargs
       IN IF procs[pid].state # "running"
          THEN /\ procs' = Reaped(procs, pid)
               /\ presult' = [status |-> "error", resource_type |-> a.resource_type,
                              name |-> a.name, namespace |-> a.namespace,
                              local_port |-> a.local_port, remote_port |-> a.remote_port,
                              message |-> procs[pid].stderr]
          ELSE /\ presult' = [status |-> "success", resource_type |-> a.resource_type,
                              name |-> a.name, namespace |-> a.namespace,
                              local_port |-> a.local_port, remote_port |-> a.remote_port,
                              address |-> a.address, process_key |-> process_key_of(a),
                              message |-> Lit("Port forwarding started: ")
                                 \o Lit(a.address \o ":" \o Str(a.local_port) \o " -> "
                                        \o a.name \o ":" \o Str(a.remote_port))]
               /\ UNCHANGED procs
    /\ ppc' = "returned"
    /\ UNCHANGED <<hasMap, sessions, pop, pargs>>
    /\ UNCHANGED <<hvars, dvars, fvars, escaped, request, rvars>>

\* Keys a caller may pass to stop_port_forward
StopKeys == {None, "", "nokey"} \cup {process_key_of(a) : a \in port_forward_args}

\* stop_port_forward as it would be without its except clause: a wait that
\* times out leaves the call as an exception.
stop_port_forward_NoExcept(process_key) ==
    /\ ppc = "idle"
    /\ pop' = "stop_port_forward"
    /\ pargs' = [process_key |-> process_key]
    /\ ppc' = "returned"
    /\ LET r == StopAll(sessions, procs, 0)
       IN IF hasMap /\ ~Truthy(process_key) /\ r.raised
          THEN /\ escaped' = "TimeoutExpired"
               /\ sessions' = r.sessions
               /\ procs' = r.procs
               /\ UNCHANGED presult
          ELSE /\ presult' = [status |-> "warning",
                              message |-> Lit("No port-forwarding processes exist")]
               /\ UNCHANGED <<sessions, procs, escaped>>
    /\ UNCHANGED hasMap
    /\ UNCHANGED <<hvars, dvars, fvars, request, rvars>>

\* stop_port_forward, lines 1162-1189
stop_port_forward(process_key) ==
    /\ ppc = "idle"
    /\ pop' = "stop_port_forward"
    /\ pargs' = [process_key |-> process_key]
    /\ ppc' = "returned"
    /\ IF ~hasMap
       THEN /\ presult' = [status |-> "warning",
                           message |-> Lit("No port-forwarding processes exist")]
            /\ UNCHANGED <<sessions, procs>>
       ELSE IF Truthy(process_key)
       THEN IF process_key \in DictKeys(sessions)
            THEN IF WaitTimesOut(procs, DictGet(sessions, process_key))
                 THEN /\ presult' = [error |-> Lit("Failed to stop port forwarding: ")
                                               \o Lit(TimeoutText)]
                      /\ UNCHANGED <<sessions, procs>>
                 ELSE /\ procs' = Reaped(procs, DictGet(sessions, process_key))
                      /\ sessions' = DictDel(sessions, process_key)
                      /\ presult' = [status |-> "success",
                                     message |-> Lit("Stopped port-forwarding for ")
                                                 \o Lit(process_key)]
            ELSE /\ presult' = [status |-> "error",
                                message |-> Lit("No port-forwarding process found for key: ")
                                            \o Lit(process_key)]
                 /\ UNCHANGED <<sessions, procs>>
       ELSE LET r == StopAll(sessions, procs, 0)
            IN /\ sessions' = r.sessions
               /\ procs' = r.procs
               /\ presult' =
                    IF r.raised
                    THEN [error |-> Lit("Failed to stop port forwarding: ")
                                    \o Lit(TimeoutText)]
                    ELSE [status |-> "success",
                          message |-> Lit("Stopped all port-forwarding processes (")
                                      \o Lit(Str(r.count)) \o Lit(" total)")]
    /\ UNCHANGED hasMap
    /\ UNCHANGED <<hvars, dvars, fvars, escaped, request, rvars>>

\* The caller takes the result; the sessions stay.
ForwardReturn ==
    /\ ppc = "returned"
    /\ ppc' = "idle"
    /\ pop' = ""
    /\ pargs' = [none |-> TRUE]
    /\ presult' = [pending |-> TRUE]
    /\ UNCHANGED <<hasMap, sessions, procs>>
    /\ UNCHANGED <<hvars, dvars, fvars, escaped, request, rvars>>

\* ------------------------------- port forwarding from several threads

RaceIdle ==
    /\ tpc = [t \in Threads |-> "idle"]
    /\ top = [t \in Threads |-> ""]
    /\ tkey = [t \in Threads |-> ""]
    /\ tproc = [t \in Threads |-> 0]
    /\ tres = [t \in Threads |-> ""]

\* The thread's call ends with the given outcome.
RaceDone(t, outcome_) ==
    /\ tpc' = [tpc EXCEPT ![t] = "done"]
    /\ tres' = [tres EXCEPT ![t] = outcome_]

\* port_forward, lines 1101-1114: the thread builds the command and Popen
\* spawns the child.
RaceStart(t, a, stubborn) ==
    /\ tpc[t] = "idle"
    /\ Len(procs) < MaxProcs
    /\ procs' = Append(procs, [key |-> process_key_of(a), cmd |-> port_forward_cmd(a),
                               state |-> "running", stubborn |-> stubborn,
                               stderr |-> <<>>])
    /\ tpc' = [tpc EXCEPT ![t] = "check"]
    /\ top' = [top EXCEPT ![t] = "port_forward"]
    /\ tkey' = [tkey EXCEPT ![t] = process_key_of(a)]
    /\ tproc' = [tproc EXCEPT ![t] = Len(procs) + 1]
    /\ UNCHANGED <<tres, hasMap, sessions, ppc, pop, pargs, presult>>
    /\ UNCHANGED <<hvars, dvars, fvars, escaped, request>>

\* port_forward, line 1117: if not hasattr(self, "_port_forward_processes")
RaceCheck(t) ==
    /\ tpc[t] = "check"
    /\ tpc' = [tpc EXCEPT ![t] = IF hasMap THEN "store" ELSE "create"]
    /\ UNCHANGED <<top, tkey, tproc, tres, pvars>>
    /\ UNCHANGED <<hvars, dvars, fvars, escaped, request>>

\* port_forward, line 1118: self._port_forward_processes = {}
RaceCreate(t) ==
    /\ tpc[t] = "create"
    /\ hasMap' = TRUE
    /\ sessions' = <<>>
    /\ tpc' = [tpc EXCEPT ![t] = "store"]
    /\ UNCHANGED <<top, tkey, tproc, tres, procs, ppc, pop, pargs, presult>>
    /\ UNCHANGED <<hvars, dvars, fvars, escaped, request>>

\* port_forward, lines 1120-1121: self._port_forward_processes[process_key] = process
RaceStore(t) ==
    /\ tpc[t] = "store"
    /\ sessions' = DictPut(sessions, tkey[t], tproc[t])
    /\ tpc' = [tpc EXCEPT ![t] = "sleep"]
    /\ UNCHANGED <<top, tkey, tproc, tres, hasMap, procs, ppc, pop, pargs, presult>>
    /\ UNCHANGED <<hvars, dvars, fvars, escaped, request>>

\* port_forward, lines 1124-1148: after the sleep, process.poll() decides.
RacePoll(t) ==
    /\ tpc[t] = "sleep"
    /\ IF procs[tproc[t]].state # "running"
       THEN /\ procs' = Reaped(procs, tproc[t])
            /\ RaceDone(t, "error")
       ELSE /\ RaceDone(t, "success")
            /\ UNCHANGED procs
    /\ UNCHANGED <<top, tkey, tproc, hasMap, sessions, ppc, pop, pargs, presult>>
    /\ UNCHANGED <<hvars, dvars, fvars, escaped, request>>

\* stop_port_forward(key) with a key, lines 1162-1167 and 1174: the hasattr
\* test and the membership test.
RaceStop(t, k) ==
    /\ tpc[t] = "idle"
    /\ top' = [top EXCEPT ![t] = "stop_port_forward"]
    /\ tkey' = [tkey EXCEPT ![t] = k]
    /\ IF ~hasMap THEN RaceDone(t, "warning")
       ELSE IF k \notin DictKeys(sessions) THEN RaceDone(t, "error")
       ELSE /\ tpc' = [tpc EXCEPT ![t] = "lookup"]
            /\ UNCHANGED tres
    /\ UNCHANGED <<tproc, pvars>>
    /\ UNCHANGED <<hvars, dvars, fvars, escaped, request>>

\* stop_port_forward, line 1168: process = self._port_forward_processes[key];
\* a key another thread has deleted raises KeyError into the except clause.
RaceLookup(t) ==
    /\ tpc[t] = "lookup"
    /\ IF tkey[t] \in DictKeys(sessions)
       THEN /\ tproc' = [tproc EXCEPT ![t] = DictGet(sessions, tkey[t])]
            /\ tpc' = [tpc EXCEPT ![t] = "terminate"]
            /\ UNCHANGED tres
       ELSE /\ RaceDone(t, "exception")
            /\ UNCHANGED tproc
    /\ UNCHANGED <<top, tkey, pvars>>
    /\ UNCHANGED <<hvars, dvars, fvars, escaped, request>>

\* stop_port_forward, lines 1169-1170: terminate() and wait(timeout=5)
RaceTerminate(t) ==
    /\ tpc[t] = "terminate"
    /\ IF WaitTimesOut(procs, tproc[t])
       THEN /\ RaceDone(t, "exception")
            /\ UNCHANGED procs
       ELSE /\ procs' = Reaped(procs, tproc[t])
            /\ tpc' = [tpc EXCEPT ![t] = "del"]
            /\ UNCHANGED tres
    /\ UNCHANGED <<top, tkey, tproc, hasMap, sessions, ppc, pop, pargs, presult>>
    /\ UNCHANGED <<hvars, dvars, fvars, escaped, request>>

\* stop_port_forward, lines 1171-1172: del self._port_forward_processes[key]
RaceDel(t) ==
    /\ tpc[t] = "del"
    /\ IF tkey[t] \in DictKeys(sessions)
       THEN /\ sessions' = DictDel(sessions, tkey[t])
            /\ RaceDone(t, "success")
       ELSE /\ RaceDone(t, "exception")
            /\ UNCHANGED sessions
    /\ UNCHANGED <<top, tkey, tproc, hasMap, procs, ppc, pop, pargs, presult>>
    /\ UNCHANGED <<hvars, dvars, fvars, escaped, request>>

\* The thread's caller takes the result; the thread may call again.
RaceReturn(t) ==
    /\ tpc[t] = "done"
    /\ tpc' = [tpc EXCEPT ![t] = "idle"]
    /\ top' = [top EXCEPT ![t] = ""]
    /\ tkey' = [tkey EXCEPT ![t] = ""]
    /\ tproc' = [tproc EXCEPT ![t] = 0]
    /\ tres' = [tres EXCEPT ![t] = ""]
    /\ UNCHANGED pvars
    /\ UNCHANGED <<hvars, dvars, fvars, escaped, request>>

\* The connector every operation is called on was built at startup.
HandleReady ==
    /\ instances = 1
    /\ constructed = 1
    /\ configLoads = {"a.yaml"}
    /\ closed = {}
    /\ inCluster = FALSE
    /\ first = 1
    /\ hpc = [t \in Threads |-> "idle"]
    /\ hkind = [t \in Threads |-> ""]
    /\ hpath = [t \in Threads |-> None]
    /\ hloaded = [t \in Threads |-> FALSE]
    /\ hobj = [t \in Threads |-> 0]
    /\ hret = [t \in Threads |-> 0]
    /\ hraised = [t \in Threads |-> ""]
    /\ hpre = [t \in Threads |-> 0]
    /\ cleanupResult = ""

\* No acquisition is in flight.
Quiet == \A t \in Threads : hpc[t] \in {"idle", "done"}

vars == <<hvars, dvars, xvars>>

Init ==
    HandleInit /\ DispatchIdle /\ FollowIdle /\ ForwardIdle /\ escaped = "" /\ request = NoRequest
    /\ RaceIdle

Next ==
    \/ \E t \in Threads : AcquireAmbient(t)
    \/ \E t \in Threads, p \in Paths : FromConfig(t, p)
    \/ \E t \in Threads, e \in EnvValues, f \in Paths : register_kubernetes_tools(t, e, f)
    \/ \E t \in Threads : SingletonCheck(t)
    \/ \E t \in Threads : ConnectorInit(t)
    \/ \E t \in Threads : SingletonStore(t)
    \/ \E t \in Threads : SingletonReturn(t)
    \/ \E t \in Threads : Finish(t)
    \/ \E h \in 1..NThreads, r \in BOOLEAN : cleanup(h, r)

Spec == Init /\ [][Next]_vars

SeqNext ==
    \/ \E t \in Threads : Quiet /\ AcquireAmbient(t)
    \/ \E t \in Threads, p \in Paths : Quiet /\ FromConfig(t, p)
    \/ \E t \in Threads, e \in EnvValues, f \in Paths :
          Quiet /\ register_kubernetes_tools(t, e, f)
    \/ \E t \in Threads : SingletonCheck(t)
    \/ \E t \in Threads : ConnectorInit(t)
    \/ \E t \in Threads : SingletonStore(t)
    \/ \E t \in Threads : SingletonReturn(t)
    \/ \E t \in Threads : Finish(t)
    \/ \E h \in 1..NThreads, r \in BOOLEAN : Quiet /\ cleanup(h, r)

SeqSpec == Init /\ [][SeqNext]_vars

DispatchInit ==
    HandleReady /\ DispatchIdle /\ FollowIdle /\ ForwardIdle /\ escaped = "" /\ request = NoRequest
    /\ RaceIdle

DispatchNext ==
    \/ \E o \in CliOps : \E a \in ArgsOf(o), x \in BOOLEAN : Call(o, a, x)
    \/ \E rc \in {0, 1}, out \in Stdouts, err \in Stderrs : ProcessExit(rc, out, err)
    \/ \E a \in kubernetes_read_tool_args : ReadTool(a)
    \/ \E r \in UNION {ApiAnswers(k) : k \in {"get_pods", "get_deployments",
                                              "get_services", "get_namespaces"}} :
          ApiReturn(r)
    \/ Return

DispatchSpec == DispatchInit /\ [][DispatchNext]_vars

FollowInit == DispatchInit

FollowNext ==
    \/ \E a \in kubectl_logs_follow_args, x \in BOOLEAN, y \in BOOLEAN : FollowCall(a, x, y)
    \/ \E line \in LogLines : ChildWrite(line)
    \/ \E err \in Stderrs, cause \in {"exit", "SIGTERM", "SIGKILL"} : ChildClose(err, cause)
    \/ ChildZombie
    \/ ReadLine
    \/ ReadEOF
    \/ ReadRaises
    \/ TimerFire
    \/ FollowCancel
    \/ FollowTerminate
    \/ FollowDrain
    \/ FollowReturn

FollowSpec == FollowInit /\ [][FollowNext]_vars

\* The caller's thread and the timer's thread keep running, a child that was
\* sent SIGKILL ends, and the kernel finishes an exit it began. A child that
\* was not killed need never end.
FollowFairSpec ==
    /\ FollowSpec
    /\ WF_vars(ReadLine)
    /\ WF_vars(ReadEOF)
    /\ WF_vars(TimerFire)
    /\ WF_vars(FollowCancel)
    /\ WF_vars(FollowTerminate)
    /\ WF_vars(FollowDrain)
    /\ WF_vars(ChildZombie)
    /\ WF_vars(sig = "SIGKILL" /\ \E err \in Stderrs : ChildClose(err, "SIGKILL"))

ForwardInit == DispatchInit

ForwardNext ==
    \/ \E a \in port_forward_args, x \in BOOLEAN, y \in BOOLEAN : PortForward(a, x, y)
    \/ \E pid \in 1..MaxProcs, err \in Stderrs : ProcExit(pid, err)
    \/ PortForwardPoll
    \/ \E k \in StopKeys : stop_port_forward(k)
    \/ ForwardReturn

ForwardSpec == ForwardInit /\ [][ForwardNext]_vars

\* ------------------------------------------- every tool-call operation

\* One tool call is served at a time.
CallerFree == phase = "idle" /\ fpc = "idle" /\ ppc = "idle"

\* The session map is read and written by port_forward and stop_port_forward
\* only; the other operations are explored from the states without sessions.
NoSessions == ~hasMap /\ procs = <<>>

RaceInit == DispatchInit

RaceNext ==
    \/ \E t \in Threads, a \in port_forward_args, y \in BOOLEAN : RaceStart(t, a, y)
    \/ \E t \in Threads : RaceCheck(t)
    \/ \E t \in Threads : RaceCreate(t)
    \/ \E t \in Threads : RaceStore(t)
    \/ \E t \in Threads : RacePoll(t)
    \/ \E t \in Threads, a \in port_forward_args : RaceStop(t, process_key_of(a))
    \/ \E t \in Threads : RaceLookup(t)
    \/ \E t \in Threads : RaceTerminate(t)
    \/ \E t \in Threads : RaceDel(t)
    \/ \E t \in Threads : RaceReturn(t)
    \/ \E pid \in 1..MaxProcs : ProcExit(pid, <<"E">>)

RaceSpec == RaceInit /\ [][RaceNext]_vars

ToolInit == DispatchInit

ToolNext ==
    \/ /\ CallerFree /\ NoSessions
       /\ \E o \in CliOps : \E a \in ArgsOf(o), x \in BOOLEAN : Call(o, a, x)
    \/ \E rc \in {0, 1}, out \in Stdouts, err \in Stderrs : ProcessExit(rc, out, err)
    \/ /\ CallerFree /\ NoSessions
       /\ \E a \in kubernetes_read_tool_args : ReadTool(a)
    \/ \E r \in UNION {ApiAnswers(k) : k \in {"get_pods", "get_deployments",
                                              "get_services", "get_namespaces"}} :
          ApiReturn(r)
    \/ /\ CallerFree /\ NoSessions
       /\ \E o \in ApiOps : \E a \in ApiArgsOf(o) : ApiCall(o, a)
    \/ \E r \in ApiTextAnswers : ApiOpReturn(r)
    \/ Return
    \/ /\ CallerFree /\ NoSessions
       /\ \E a \in kubectl_logs_follow_args, x \in BOOLEAN, y \in BOOLEAN : FollowCall(a, x, y)
    \/ \E line \in LogLines : ChildWrite(line)
    \/ \E err \in Stderrs, cause \in {"exit", "SIGTERM", "SIGKILL"} : ChildClose(err, cause)
    \/ ChildZombie
    \/ ReadLine
    \/ ReadEOF
    \/ ReadRaises
    \/ TimerFire
    \/ FollowCancel
    \/ FollowTerminate
    \/ FollowDrain
    \/ FollowReturn
    \/ /\ CallerFree
       /\ \E a \in port_forward_args, x \in BOOLEAN, y \in BOOLEAN : PortForward(a, x, y)
    \/ \E pid \in 1..MaxProcs, err \in Stderrs : ProcExit(pid, err)
    \/ PortForwardPoll
    \/ /\ CallerFree
       /\ \E k \in StopKeys : stop_port_forward(k)
    \/ ForwardReturn

ToolSpec == ToolInit /\ [][ToolNext]_vars

\* ------------------------------------------------------------ claims

\* C1 (SeqSpec): after any sequence of acquisitions and cleanup() calls the
\* connector has been constructed at most once; the registered handle stays
\* the first one, also after cleanup(), and every acquisition that returns
\* returns it.
C1_AtMostOneHandle ==
    /\ constructed <= 1
    /\ instances = first
    /\ closed # {} => instances # 0
    /\ \A t \in Threads : (hpc[t] = "done" /\ hraised[t] = "") => hret[t] = first

\* C1 witness: cleanup() has closed the handle and a later acquisition has
\* passed the membership test without constructing anything.
C1_Witness ==
    \E t \in Threads :
        /\ hpc[t] = "return"
        /\ hobj[t] = 0
        /\ closed = {1}
        /\ constructed = 1
        /\ instances = 1

\* C2 as stated: once a handle exists, every later acquisition returns it and
\* none fails, whatever the parameters.
C2_Original ==
    \A t \in Threads :
        (hpc[t] = "done" /\ hpre[t] # 0) => (hraised[t] = "" /\ hret[t] = hpre[t])

\* C2 amended: once a handle exists, an ambient acquisition and an explicit
\* acquisition whose path names an existing, loadable file return the original
\* handle; an explicit acquisition whose path is unset, empty or missing raises
\* RuntimeError, one whose file does not load raises the loader's error; in
\* every case the registered handle stays the original and nothing is built.
C2_Amended ==
    \A t \in Threads :
        (hpc[t] = "done" /\ hpre[t] # 0) =>
            /\ instances = hpre[t]
            /\ hobj[t] = 0
            /\ IF hkind[t] = "explicit" /\ hpath[t] \in {None, "", "missing.yaml"}
               THEN hraised[t] = "RuntimeError" /\ hret[t] = 0
               ELSE IF hkind[t] = "explicit" /\ hpath[t] = "bad.yaml"
               THEN hraised[t] = "ConfigException" /\ hret[t] = 0
               ELSE hraised[t] = "" /\ hret[t] = hpre[t]

\* C2 witness: with the handle built from a.yaml, one caller got it back from
\* from_config("b.yaml") and another was refused for a missing file.
C2_Witness ==
    \E t, u \in Threads :
        /\ hpc[t] = "done" /\ hpre[t] = 1 /\ hkind[t] = "explicit" /\ hpath[t] = "b.yaml"
        /\ hret[t] = 1
        /\ hpc[u] = "done" /\ hpre[u] = 1 /\ hkind[u] = "explicit"
        /\ hpath[u] = "missing.yaml" /\ hraised[u] = "RuntimeError"
        /\ "a.yaml" \in configLoads

\* C3 (Spec): when callers perform the first acquisition concurrently, the
\* constructor runs once and all of them receive the same handle.
C3_OneConstruction ==
    /\ constructed <= 1
    /\ \A t, u \in Threads :
          (/\ hpc[t] = "done" /\ hraised[t] = "" /\ hpre[t] = 0
           /\ hpc[u] = "done" /\ hraised[u] = "" /\ hpre[u] = 0) => hret[t] = hret[u]

\* C4 (SeqSpec): an explicit-mode acquisition whose path is unset, empty or
\* names no existing file fails at once with RuntimeError: it builds and
\* registers no handle and loads no configuration, in-cluster or other.
C4_ExplicitFailsFatally ==
    [][\A t \in Threads :
          (/\ hpc[t] = "idle"
           /\ hpc'[t] # "idle"
           /\ hkind'[t] = "explicit"
           /\ hpath'[t] \in {None, "", "missing.yaml"}) =>
              (/\ hpc'[t] = "done"
               /\ hraised'[t] = "RuntimeError"
               /\ hret'[t] = 0
               /\ UNCHANGED <<instances, constructed, configLoads, first>>)]_vars

\* C4 witness: at startup, with no credentials file configured, the
\* acquisition has failed and no handle exists.
C4_Witness ==
    \E t \in Threads :
        /\ hpc[t] = "done"
        /\ hkind[t] = "explicit"
        /\ hpath[t] = None
        /\ hraised[t] = "RuntimeError"
        /\ instances = 0
        /\ constructed = 0
        /\ configLoads = {}

\* The record a call returned: the read tool wraps it as the JSON text of its
\* one TextContent item.
Envelope == IF op = "kubernetes_read_tool" THEN result[1].text.json ELSE result

\* The call was not rejected for its parameters.
Accepted == op \in CliOps /\ PreOf(op, args).reject = <<>>

\* The subprocess of the call has exited with this code.
ExitedWith(rc) == outcome.kind = "exit" /\ outcome.returncode = rc

\* C5 (DispatchSpec): kubectl_apply with neither manifest nor filename,
\* kubectl_create with neither filename nor resource_type and name, and
\* kubectl_delete with neither filename nor resource_type, or with a
\* resource_type but neither name nor label_selector, return an error record
\* at once and spawn no subprocess.
C5_NoTargetNoSpawn ==
    ( \/ /\ op = "kubectl_apply"
         /\ ~Truthy(args.manifest) /\ ~Truthy(args.filename)
      \/ /\ op = "kubectl_create"
         /\ ~Truthy(args.filename)
         /\ ~(Truthy(args.resource_type) /\ Truthy(args.name))
      \/ /\ op = "kubectl_delete"
         /\ ~Truthy(args.filename)
         /\ \/ ~Truthy(args.resource_type)
            \/ ~Truthy(args.name) /\ ~Truthy(args.label_selector) )
    => /\ phase = "returned"
       /\ spawned = 0
       /\ live = 0
       /\ cmd = <<>>
       /\ outcome = NoOutcome
       /\ "error" \in DOMAIN result

\* C5 witness: kubectl_apply(manifest="", filename=None) has returned its
\* error record without a subprocess.
C5_Witness ==
    /\ phase = "returned"
    /\ op = "kubectl_apply"
    /\ args.manifest = ""
    /\ args.filename = None
    /\ spawned = 0
    /\ "error" \in DOMAIN result

\* The keyword of the call is none of those the operation documents.
UnsupportedRead ==
    /\ op = "kubernetes_read_tool"
    /\ args.resource_type \notin {"pod", "pods", "deployment", "deployments", "deploy",
                                  "service", "services", "svc", "namespace",
                                  "namespaces", "ns"}

UnsupportedContext == op = "kubectl_context" /\ args.action \notin {"list", "get", "set"}

UnsupportedRollout ==
    /\ op = "kubectl_rollout"
    /\ args.subcommand \notin {"status", "history", "undo", "pause", "resume", "restart"}

UnsupportedPatch ==
    op = "kubectl_patch" /\ args.patch_type \notin {"strategic", "merge", "json"}

\* A call that was stopped before it reached a subprocess or the cluster API.
StoppedEarly ==
    /\ phase = "returned"
    /\ spawned = 0
    /\ apiCalls = 0
    /\ outcome = NoOutcome
    /\ "error" \in DOMAIN Envelope

\* C6 (DispatchSpec): in the read tool (resource_type), kubectl_context
\* (action), kubectl_rollout (subcommand) and kubectl_patch (patch_type) an
\* unsupported keyword is detected before any subprocess is spawned or cluster
\* API call is made, and an error record is returned at once.
C6_KeywordCheckedFirst ==
    (UnsupportedRead \/ UnsupportedContext \/ UnsupportedRollout \/ UnsupportedPatch)
    => StoppedEarly

\* C7 as stated: every accepted non-follow dispatcher or Helm call spawns
\* exactly one subprocess and returns only after it has exited.
C7_Original == (phase = "returned" /\ Accepted) => (spawned = 1 /\ live = 0)

\* C7 amended (DispatchSpec): every accepted non-follow dispatcher or Helm
\* call spawns at most one subprocess - exactly one unless subprocess.run
\* itself raises, and then none - and returns only after that subprocess has
\* exited; a non-zero exit is not retried, so no call spawns a second one.
C7_Amended ==
    /\ spawned <= 1
    /\ live <= spawned
    /\ (phase = "running") => (spawned = 1 /\ live = 1)
    /\ (phase = "returned" /\ Accepted) =>
          /\ live = 0
          /\ IF outcome.kind = "raise" THEN spawned = 0
             ELSE outcome.kind = "exit" /\ spawned = 1

\* C7 witness: helm install has returned after its one subprocess exited
\* with a non-zero code.
C7_Witness ==
    /\ phase = "returned"
    /\ op = "install_helm_chart"
    /\ outcome.kind = "exit"
    /\ outcome.returncode = 1
    /\ spawned = 1
    /\ live = 0

\* The field in which an operation's success record holds the output.
PayloadKey(o, a) ==
    CASE o \in {"kubectl_apply", "kubectl_create", "kubectl_delete", "install_helm_chart",
                "uninstall_helm_chart", "upgrade_helm_chart"} -> "message"
      [] o = "kubectl_describe" -> "description"
      [] o = "kubectl_generic" -> "output"
      [] o = "kubectl_get" -> IF a.output_format = "json" THEN "data" ELSE "output"
      [] o = "kubectl_logs" -> "logs"
      [] o \in {"kubectl_patch", "kubectl_rollout", "kubectl_scale", "kubectl_context"}
            -> "result"
      [] o = "explain_resource" -> "explanation"
      [] o = "list_api_resources" -> "resources"

\* The success record holds the stdout text itself (a parsed payload counts).
CarriesStdout ==
    /\ PayloadKey(op, args) \in DOMAIN result
    /\ PayloadKey(op, args) \notin {"data", "resources"} =>
          Concat(result[PayloadKey(op, args)]) = Concat(outcome.stdout)

\* C8 as stated: in every dispatcher and Helm operation, exit code 0 gives a
\* result with status "success" that carries the subprocess stdout.
C8_Original ==
    (phase = "returned" /\ op \in CliOps /\ ExitedWith(0))
    => (result.status = "success" /\ CarriesStdout)

\* t is s without its leading and trailing whitespace.
IsStripOf(t, s) ==
    /\ t # <<>> => (~IsSpace(t[1]) /\ ~IsSpace(t[Len(t)]))
    /\ \E i \in 0..Len(s) :
          /\ i + Len(t) <= Len(s)
          /\ SubSeq(s, i + 1, i + Len(t)) = t
          /\ \A j \in (1..i) \cup ((i + Len(t) + 1)..Len(s)) : IsSpace(s[j])

\* C8 amended (DispatchSpec): on exit code 0 every dispatcher and Helm
\* operation returns status "success", except kubectl_get with output_format
\* "json" when stdout is no JSON document (status "error", the raw stdout in
\* `output`). The success record carries stdout itself, except that
\* kubectl_get with "json" carries the parsed value, kubectl_context stdout
\* without surrounding whitespace, list_api_resources the parsed records, and
\* kubectl_generic without capture_output a fixed text.
C8_Amended ==
    (phase = "returned" /\ op \in CliOps /\ ExitedWith(0)) =>
        IF op = "kubectl_get" /\ args.output_format = "json" /\ ~JsonValid(outcome.stdout)
        THEN /\ result.status = "error"
             /\ Concat(result.output) = Concat(outcome.stdout)
        ELSE /\ result.status = "success"
             /\ PayloadKey(op, args) \in DOMAIN result
             /\ CASE op = "kubectl_get" /\ args.output_format = "json" ->
                        result.data.type \in {"dict", "int"}
                  [] op = "kubectl_context" -> IsStripOf(result.result, outcome.stdout)
                  [] op = "list_api_resources" ->
                        result.total_count = Len(result.resources)
                  [] op = "kubectl_generic" /\ ~args.capture_output ->
                        Concat(result.output) = "Command executed (output not captured)"
                  [] OTHER -> Concat(result[PayloadKey(op, args)]) = Concat(outcome.stdout)

\* C8 witness: kubectl_scale has returned success with the stdout of its
\* subprocess, which exited with code 0.
C8_Witness ==
    /\ phase = "returned"
    /\ op = "kubectl_scale"
    /\ ExitedWith(0)
    /\ outcome.stdout = <<"o", "\n">>
    /\ result.status = "success"
    /\ result.result = <<"o", "\n">>

\* C9 (DispatchSpec): in every dispatcher and Helm operation, a non-zero exit
\* or an exception while building or spawning the command gives a record with
\* status "error" and a message field holding the stderr text or the
\* exception text.
C9_ErrorEnvelope ==
    (phase = "returned" /\ op \in CliOps /\ (outcome.kind = "raise" \/ ExitedWith(1))) =>
        /\ "status" \in DOMAIN result
        /\ result.status = "error"
        /\ "message" \in DOMAIN result
        /\ IF outcome.kind = "raise"
           THEN \E i \in DOMAIN result.message : result.message[i] = outcome.text
           ELSE Concat(result.message) = Concat(outcome.stderr)

\* The record the operation returns for these parameters when it succeeds.
SuccessOf(o, a) == PostOf(o, a, Exited(0, <<"{", "}">>, <<>>))

\* The fields of a record that hold output or diagnostics, not the call's identity.
PayloadKeys ==
    {"status", "message", "output", "result", "description", "explanation", "logs", "data",
     "resources", "total_count", "error", "stdout", "stderr"}

\* The record reports a failure.
IsErrorRecord(r) ==
    \/ "error" \in DOMAIN r
    \/ "status" \in DOMAIN r /\ r.status = "error"

\* C10 (DispatchSpec): every error result of an operation carries the same
\* identifying context fields, with the same values, as that operation's
\* success result, on every failure path.
C10_SameContextFields ==
    (phase = "returned" /\ op \in CliOps /\ IsErrorRecord(result)) =>
        \A k \in DOMAIN SuccessOf(op, args) \ PayloadKeys :
            k \in DOMAIN result /\ result[k] = SuccessOf(op, args)[k]

\* C11 (DispatchSpec): kubectl_get whose subprocess exited with code 0: with
\* output_format "json" and stdout that is no JSON document the result is an
\* error that reports the parse failure, carries the raw stdout, and has
\* another shape than the result of a failed command; with "json" and a JSON
\* document the parsed value is returned as data; with any other format
\* stdout is returned unparsed.
C11_GetJsonParsing ==
    (phase = "returned" /\ op = "kubectl_get" /\ ExitedWith(0)) =>
        IF args.output_format = "json"
        THEN IF JsonValid(outcome.stdout)
             THEN /\ result.status = "success"
                  /\ "data" \in DOMAIN result
                  /\ result.data = JsonLoads(outcome.stdout)
                  /\ "output" \notin DOMAIN result
             ELSE /\ result.status = "error"
                  /\ Concat(result.message) = "Failed to parse JSON output"
                  /\ result.output = outcome.stdout
                  /\ \A err \in Stderrs :
                        DOMAIN result
                          # DOMAIN kubectl_get_post(args, Exited(1, outcome.stdout, err))
        ELSE /\ result.status = "success"
             /\ result.output = outcome.stdout
             /\ "data" \notin DOMAIN result

\* C11 witness: kubectl_get -o json exited with code 0 having written "{",
\* and the parse error with that raw stdout came back.
C11_Witness ==
    /\ phase = "returned"
    /\ op = "kubectl_get"
    /\ args.output_format = "json"
    /\ ExitedWith(0)
    /\ outcome.stdout = <<"{">>
    /\ result.status = "error"
    /\ result.output = <<"{">>

\* The follow call got its child and read the stream to its end.
StreamEnded == fpc = "returned" /\ child # "none" /\ pending = ""

\* C13 (FollowSpec): kubectl_logs with follow=True reports truncated = true
\* exactly when the child was killed by the max_follow_seconds timer, and
\* truncated = false when the child ended by itself.
C13_TruncatedIffKilled ==
    (fpc = "returned" /\ "truncated" \in DOMAIN fresult)
    => (fresult.truncated <=> death = "SIGKILL")

\* C14 (FollowFairSpec): kubectl_logs with follow=True always eventually
\* returns, also against a child that never ends by itself: the timer fires,
\* the child is killed, the stream ends and the call returns.
C14_FollowReturns ==
    (fpc \in {"reading", "cancel", "terminate", "drain"}) ~> (fpc = "returned")

\* C14 witness: the call has returned after the timer killed the child.
C14_Witness ==
    /\ fpc = "returned"
    /\ timer = "fired"
    /\ death = "SIGKILL"
    /\ "status" \in DOMAIN fresult

\* C15 (FollowSpec): in follow mode, once the stream has ended, any stderr
\* content makes the result an error record carrying that stderr and no
\* collected line; with empty stderr the result carries the lines the child
\* wrote, concatenated in the order it wrote them.
C15_StderrPrecedence ==
    StreamEnded =>
        IF ferr # <<>>
        THEN /\ fresult.status = "error"
             /\ fresult.message = ferr
             /\ "logs" \notin DOMAIN fresult
        ELSE /\ fresult.status = "success"
             /\ fresult.logs = JoinLines(sent)

\* C15 witness: two different lines were collected, stderr was not empty, and
\* the error came back.
C15_Witness ==
    /\ StreamEnded
    /\ Len(output) = 2
    /\ output[1] # output[2]
    /\ ferr = <<"E">>
    /\ fresult.status = "error"

\* C16 (FollowSpec): on every way out of the reading loop the timer is
\* cancelled and the child is ended and reaped before the call returns:
\* neither a pending timer nor a live or unreaped child is left behind.
C16_NothingLeftBehind ==
    (fpc = "returned" /\ child # "none")
    => (timer \in {"cancelled", "fired"} /\ child = "reaped")

\* A Helm install or upgrade that was given chart values.
HelmWithValues ==
    /\ op \in {"install_helm_chart", "upgrade_helm_chart"}
    /\ "values" \in DOMAIN args
    /\ args.values # <<>>

\* C17 (DispatchSpec): install_helm_chart and upgrade_helm_chart with
\* non-empty values: while the one helm child that receives the temporary
\* values file through -f runs, the file exists; when the call has returned
\* (exit 0, non-zero exit, or the spawn raised) the file no longer exists.
C17_ValuesFileLifetime ==
    HelmWithValues =>
        /\ phase = "running" =>
              /\ tmp = "exists"
              /\ spawned = 1
              /\ live = 1
              /\ \E i \in 1..(Len(cmd) - 1) : cmd[i] = "-f" /\ cmd[i + 1] = TmpName
        /\ phase = "returned" =>
              /\ tmp # "exists"
              /\ outcome.kind # "none" => tmp = "deleted"
              /\ live = 0
              /\ spawned <= 1

\* C17 witness: an upgrade with values whose helm child exited non-zero has
\* returned and the file is gone.
C17_Witness ==
    /\ HelmWithValues
    /\ op = "upgrade_helm_chart"
    /\ phase = "returned"
    /\ outcome.kind = "exit"
    /\ outcome.returncode = 1
    /\ spawned = 1
    /\ tmp = "deleted"

\* C18 (ForwardSpec): stop_port_forward() without a key ends every session
\* and leaves the session map empty, however each child reacts to SIGTERM.
C18_StopAllEmpties ==
    (ppc = "returned" /\ pop = "stop_port_forward" /\ pargs.process_key = None)
    => (sessions = <<>> /\ "error" \notin DOMAIN presult)

\* C19 (ForwardSpec): stop_port_forward(key) for a key that is not in the
\* session map answers status "error" and changes nothing, in every state,
\* also before any port-forward was ever started.
C19_UnknownKeyIsError ==
    [][(/\ ppc = "idle"
        /\ ppc' = "returned"
        /\ pop' = "stop_port_forward"
        /\ pargs'.process_key # None
        /\ pargs'.process_key \notin DictKeys(sessions))
       => (/\ "status" \in DOMAIN presult'
           /\ presult'.status = "error"
           /\ UNCHANGED <<sessions, procs, hasMap>>)]_vars

\* The pids of the port-forward children that were spawned and have not ended.
LiveProcs == {pid \in DOMAIN procs : procs[pid].state = "running"}

\* C20 (ForwardSpec): a session key is unique while active: at most one
\* live child per key, and every live child is the handle the session map
\* holds under its key, also when port_forward is issued again with a key
\* that is still active.
C20_KeyUniqueNoOrphan ==
    /\ \A p, q \in LiveProcs : procs[p].key = procs[q].key => p = q
    /\ \A p \in LiveProcs :
          /\ procs[p].key \in DictKeys(sessions)
          /\ DictGet(sessions, procs[p].key) = p

\* C12 (ToolSpec): every tool-call operation of the connector and the read
\* tool returns a result value whatever the cluster API or the subprocess
\* does (the spawn raises, the child exits non-zero, the wait times out, the
\* stream cannot be read): no exception leaves a call.
C12_NoEscape ==
    /\ escaped = ""
    /\ phase = "returned" =>
          IF op = "kubernetes_read_tool"
          THEN Len(result) = 1 /\ result[1].type = "text"
          ELSE "pending" \notin DOMAIN result
    /\ fpc = "returned" => ("error" \in DOMAIN fresult \/ "status" \in DOMAIN fresult)
    /\ ppc = "returned" => ("error" \in DOMAIN presult \/ "status" \in DOMAIN presult)

\* C12 witness: with a session whose child does not end on SIGTERM, the wait
\* in stop_port_forward() timed out and the call returned an error record.
C12_Witness ==
    /\ ppc = "returned"
    /\ pop = "stop_port_forward"
    /\ sessions # <<>>
    /\ "error" \in DOMAIN presult
    /\ presult.error = Lit("Failed to stop port forwarding: ") \o Lit(TimeoutText)
    /\ escaped = ""

\* A list operation, run by the read tool, has returned.
ListReturned ==
    /\ op = "kubernetes_read_tool"
    /\ phase = "returned"
    /\ escaped = ""
    /\ reader_of(args.resource_type) # "unsupported"

\* The result record of the list operation that has returned.
ListResult == result[1].text.json

\* The key the list operation returns its list under.
ListKey ==
    CASE reader_of(args.resource_type) = "get_pods" -> "pods"
      [] reader_of(args.resource_type) = "get_deployments" -> "deployments"
      [] reader_of(args.resource_type) = "get_services" -> "services"
      [] reader_of(args.resource_type) = "get_namespaces" -> "namespaces"

\* C22 (DispatchSpec): a non-error result of get_pods, get_deployments,
\* get_services or get_namespaces has total_count equal to the length of
\* its list, and the list holds one record per object the cluster API
\* returned, in the API's order.
C22_CountAndOrder ==
    (ListReturned /\ outcome.kind = "items") =>
        /\ "error" \notin DOMAIN ListResult
        /\ ListResult.total_count = Len(ListResult[ListKey])
        /\ Len(ListResult[ListKey]) = Len(outcome.items)
        /\ \A i \in DOMAIN outcome.items :
              ListResult[ListKey][i].name = outcome.items[i].metadata.name

\* C22 witness: get_pods returned two different pods in the API's order.
C22_Witness ==
    /\ ListReturned
    /\ outcome.kind = "items"
    /\ ListKey = "pods"
    /\ Len(outcome.items) = 2
    /\ outcome.items[1].metadata.name = "job-1"
    /\ outcome.items[2].metadata.name = "web-1"
    /\ ListResult.total_count = 2

\* C23 (DispatchSpec): in get_pods a container of the pod spec is reported
\* ready exactly when the pod status has a container-status entry with the
\* same name whose ready flag is true; without such an entry, or without
\* any container-status list, it is reported not ready.
C23_ReadyByName ==
    (ListReturned /\ outcome.kind = "items" /\ ListKey = "pods") =>
        \A i \in DOMAIN outcome.items :
            LET pod == outcome.items[i]
                st == pod.status.container_statuses
            IN \A j \in DOMAIN pod.spec.containers :
                  ListResult.pods[i].containers[j].ready
                  <=> /\ st # <<>>
                      /\ \E k \in DOMAIN st[1] :
                            /\ st[1][k].name = pod.spec.containers[j].name
                            /\ st[1][k].ready

\* C23 witness: a pod came back with one container ready, one with a status
\* entry that is not ready and one with no status entry, and another pod
\* with no container-status list.
C23_Witness ==
    /\ ListReturned
    /\ outcome.kind = "items"
    /\ ListKey = "pods"
    /\ Len(outcome.items) = 2
    /\ outcome.items[1].metadata.name = "web-1"
    /\ outcome.items[2].status.container_statuses = <<>>
    /\ ListResult.pods[1].containers[1].ready
    /\ ~ListResult.pods[1].containers[2].ready
    /\ ~ListResult.pods[1].containers[3].ready
    /\ ~ListResult.pods[2].containers[1].ready

\* C24 (DispatchSpec): each list operation issues exactly one cluster API
\* call per invocation; when the call fails the result is an error record
\* with no list and no total_count, and the call is not issued again.
C24_OneCallNoRetry ==
    ListReturned =>
        /\ apiCalls = 1
        /\ outcome.kind = "raise" => DOMAIN ListResult = {"error"}

\* C24 witness: get_deployments returned the error record of a failed call.
C24_Witness ==
    /\ ListReturned
    /\ ListKey = "deployments"
    /\ outcome.kind = "raise"
    /\ apiCalls = 1
    /\ "error" \in DOMAIN ListResult

\* The keys every record of a list operation has.
RecordKeys ==
    CASE ListKey = "pods" ->
           {"name", "namespace", "status", "node", "created", "labels", "containers"}
      [] ListKey = "deployments" ->
           {"name", "namespace", "replicas", "ready_replicas", "available_replicas",
            "updated_replicas", "created", "labels", "selector"}
      [] ListKey = "services" ->
           {"name", "namespace", "type", "cluster_ip", "external_ips", "ports", "selector",
            "created", "labels"}
      [] ListKey = "namespaces" -> {"name", "status", "created", "labels"}

\* C25 (DispatchSpec): every record a list operation returns has the fixed
\* key set of its resource type whichever optional upstream fields are
\* absent: absent labels, selectors, external IPs, ports and container
\* statuses become empty collections, absent timestamps null and absent
\* replica counts 0; the call does not fail.
C25_FixedKeys ==
    (ListReturned /\ outcome.kind = "items") =>
        /\ "error" \notin DOMAIN ListResult
        /\ \A i \in DOMAIN outcome.items :
              LET x == outcome.items[i]
                  rec == ListResult[ListKey][i]
              IN /\ DOMAIN rec = RecordKeys
                 /\ x.metadata.labels = <<>> => rec.labels = {}
                 /\ x.metadata.creation_timestamp = <<>> => rec.created = None
                 /\ ListKey = "pods" =>
                       (x.status.container_statuses = <<>> =>
                           \A j \in DOMAIN rec.containers : ~rec.containers[j].ready)
                 /\ ListKey = "deployments" =>
                       /\ x.spec.selector.match_labels = <<>> => rec.selector = {}
                       /\ x.status.ready_replicas = <<>> => rec.ready_replicas = 0
                       /\ x.status.available_replicas = <<>> => rec.available_replicas = 0
                       /\ x.status.updated_replicas = <<>> => rec.updated_replicas = 0
                 /\ ListKey = "services" =>
                       /\ x.spec.selector = <<>> => rec.selector = {}
                       /\ x.spec.external_i_ps = <<>> => rec.external_ips = <<>>
                       /\ x.spec.ports = <<>> => rec.ports = <<>>

\* C25 witness: get_services returned a service that has no labels,
\* selector, external IPs, ports or timestamp next to one that has them all.
C25_Witness ==
    /\ ListReturned
    /\ outcome.kind = "items"
    /\ ListKey = "services"
    /\ Len(outcome.items) = 2
    /\ outcome.items[1].spec.ports = <<>>
    /\ outcome.items[1].metadata.labels = <<>>
    /\ outcome.items[2].spec.ports # <<>>
    /\ ListResult.services[1].external_ips = <<>>
    /\ ListResult.services[1].created = None

\* A line of at least five whitespace-separated tokens.
HasFiveTokens(line) == Len(SplitSpace(line, <<>>)) >= 5

\* The stdout lines after the first that have at least five tokens.
IncludedLines == SelectSeq(Tail(SplitOn(outcome.stdout, "\n", <<>>)), HasFiveTokens)

\* C26 (DispatchSpec): list_api_resources on exit code 0 skips the first
\* stdout line as header and returns one record per remaining line of at
\* least five whitespace-separated tokens, built from its first five tokens
\* in order, a short-names token "none" becoming an empty list; shorter
\* lines are left out and total_count is the number of records.
C26_ApiResourcesParsed ==
    (op = "list_api_resources" /\ phase = "returned" /\ outcome.kind = "exit"
       /\ outcome.returncode = 0) =>
        /\ result.status = "success"
        /\ result.total_count = Len(result.resources)
        /\ Len(result.resources) = Len(IncludedLines)
        /\ \A i \in DOMAIN IncludedLines :
              LET parts == SplitSpace(IncludedLines[i], <<>>)
                  rec == result.resources[i]
              IN /\ rec.name = parts[1]
                 /\ IF parts[2] = "none" THEN rec.shortnames = <<>>
                                          ELSE rec.shortnames = parts[2]
                 /\ rec.apiversion = parts[3]
                 /\ rec.namespaced = (parts[4] = "true")
                 /\ rec.kind = parts[5]

\* C26 witness: of a header and three lines, the line of six tokens and the
\* line of five came back as records and the line of four did not.
C26_Witness ==
    /\ op = "list_api_resources"
    /\ phase = "returned"
    /\ outcome.kind = "exit"
    /\ outcome.returncode = 0
    /\ Len(SplitOn(outcome.stdout, "\n", <<>>)) = 5
    /\ result.total_count = 2
    /\ result.resources[1].name = "c"
    /\ ~result.resources[1].namespaced
    /\ result.resources[2].shortnames = "po"

\* The read tool has returned to its caller.
ReadReturned == op = "kubernetes_read_tool" /\ phase = "returned" /\ escaped = ""

\* C27 (DispatchSpec): the read tool returns exactly one text item for every
\* input and every connector outcome; resource_type pod/pods,
\* deployment/deployments/deploy, service/services/svc and
\* namespace/namespaces/ns each lead to exactly the matching connector read
\* (an empty label_selector passed as no selector, the namespace not passed
\* for namespaces), and the item is the JSON text of that read's result or
\* of an error record.
C27_OneTextItem ==
    ReadReturned =>
        /\ Len(result) = 1
        /\ result[1].type = "text"
        /\ IF args.resource_type \in {"pod", "pods"}
           THEN /\ apiCalls = 1
                /\ request = [call |-> "list_namespaced_pod", namespace |-> args.namespace,
                              label_selector |-> IF args.label_selector = "" THEN None
                                                 ELSE args.label_selector]
                /\ result[1].text = json_dumps(get_pods(outcome))
           ELSE IF args.resource_type \in {"deployment", "deployments", "deploy"}
           THEN /\ apiCalls = 1
                /\ request = [call |-> "list_namespaced_deployment",
                              namespace |-> args.namespace]
                /\ result[1].text = json_dumps(get_deployments(outcome))
           ELSE IF args.resource_type \in {"service", "services", "svc"}
           THEN /\ apiCalls = 1
                /\ request = [call |-> "list_namespaced_service",
                              namespace |-> args.namespace]
                /\ result[1].text = json_dumps(get_services(outcome))
           ELSE IF args.resource_type \in {"namespace", "namespaces", "ns"}
           THEN /\ apiCalls = 1
                /\ request = [call |-> "list_namespace"]
                /\ result[1].text = json_dumps(get_namespaces(outcome))
           ELSE /\ apiCalls = 0
                /\ request = NoRequest
                /\ DOMAIN result[1].text.json = {"error"}

\* C27 witness: the read tool, asked for "ns" with a namespace other than
\* the default, returned the JSON text of the two namespaces get_namespaces
\* listed.
C27_Witness ==
    /\ ReadReturned
    /\ args.resource_type = "ns"
    /\ args.namespace = "kube-system"
    /\ request = [call |-> "list_namespace"]
    /\ outcome.kind = "items"
    /\ Len(result) = 1
    /\ result[1].text.json.total_count = 2

\* The threads that are reading or writing the session map.
InMap == {t \in Threads : tpc[t] \in {"check", "create", "store", "lookup", "del"}}

\* The children whose start has stored them in the session map.
Stored ==
    {pid \in DOMAIN procs :
        \A t \in Threads : (top[t] = "port_forward" /\ tproc[t] = pid)
                              => tpc[t] \in {"sleep", "done"}}

\* C21 (RaceSpec): under every interleaving of concurrent port_forward and
\* stop_port_forward calls no update of the session map is lost and access
\* to it is mutually exclusive: every running child a start has stored is
\* the handle the map holds under its key (concurrent starts with one key do
\* not overwrite one another, two concurrent first starts with different
\* keys are both registered), and at most one thread is in the map at a time.
C21_NoLostUpdate ==
    /\ \A pid \in Stored :
          procs[pid].state = "running" =>
              /\ procs[pid].key \in DictKeys(sessions)
              /\ DictGet(sessions, procs[pid].key) = pid
    /\ Cardinality(InMap) <= 1

\* namespace/resource_type/name/localPort/remotePort of a port_forward call
SessionKey(a) ==
    a.namespace \o "/" \o a.resource_type \o "/" \o a.name \o "/" \o Str(a.local_port)
      \o "/" \o Str(a.remote_port)

\* port_forward spawns its child and registers it.
StartStep == ppc = "idle" /\ ppc' = "sleeping"

\* port_forward polls its child after the grace period and returns.
PollStep == ppc = "sleeping" /\ ppc' = "returned"

\* stop_port_forward is called with a key that is in the session map.
StopKnownStep ==
    /\ ppc = "idle"
    /\ ppc' = "returned"
    /\ pop' = "stop_port_forward"
    /\ pargs'.process_key \in DictKeys(sessions)

C29_FailedStartLeavesNoEntry ==
    (/\ ppc = "returned"
     /\ pop = "port_forward"
     /\ "status" \in DOMAIN presult
     /\ presult.status = "error")
    => SessionKey(pargs) \notin DictKeys(sessions)

\* C30 (ForwardSpec): stop_port_forward(key) for a key in the session map
\* terminates that session's child, waits for it, removes exactly that key
\* and returns success, leaving every other entry and child as they were;
\* if the wait times out an error result is returned and the entry stays.
C30_StopOneSession ==
    [][StopKnownStep =>
         LET k == pargs'.process_key
             pid == DictGet(sessions, k)
         IN IF procs[pid].state = "running" /\ procs[pid].stubborn
            THEN /\ "error" \in DOMAIN presult'
                 /\ sessions' = sessions
                 /\ procs' = procs
            ELSE /\ presult'.status = "success"
                 /\ procs'[pid].state = "reaped"
                 /\ \A q \in DOMAIN procs : q # pid => procs'[q] = procs[q]
                 /\ DictKeys(sessions') = DictKeys(sessions) \ {k}
                 /\ \A j \in DictKeys(sessions') :
                       DictGet(sessions', j) = DictGet(sessions, j)
      ]_vars

\* C30 witness: of two sessions one was stopped by its key; the other
\* session's entry is still in the map and its child still runs.
C30_Witness ==
    /\ ppc = "returned"
    /\ pop = "stop_port_forward"
    /\ "status" \in DOMAIN presult
    /\ presult.status = "success"
    /\ Len(procs) = 2
    /\ procs[1].key # procs[2].key
    /\ Len(sessions) = 1
    /\ pargs.process_key \notin DictKeys(sessions)
    /\ procs[DictGet(sessions, sessions[1][1])].state = "running"

====
